---- MODULE Spec2Model ----
(***************************************************************************)
(* Model of the overlap-add engine phaseshift::ola                         *)
(* (src/phaseshift/audio_block/ola.cpp, ola.h).                            *)
(*                                                                         *)
(* Samples.  The code works on float samples.  The model computes in exact *)
(* arithmetic: input samples and window weights are integers (multiples of *)
(* a unit larger than 2*eps), the accumulators hold integer sums, and the  *)
(* division of divide_equal_range yields a reduced fraction <<p, q>>, so   *)
(* every sample that reaches an output buffer is a fraction.               *)
(*                                                                         *)
(* Ring buffers are modelled by their logical content (front first) and    *)
(* their capacity size_max.                                                *)
(*                                                                         *)
(* Assertions.  A failing assert of the code sets the field abort of the   *)
(* engine: the debug build stops there, and the model takes no further     *)
(* step of that engine.                                                    *)
(***************************************************************************)
EXTENDS Integers, Sequences, FiniteSets, TLC

\* ------------------------------------------------------------------ bounds
MaxWinlen == 3         \* largest frame length N
MaxLen    == 5         \* longest input signal of a test run
MaxChunk  == 5         \* largest chunk size of a streaming or real-time run
MaxExtraFlush == 3     \* largest extra_samples_to_flush of a polled flush
MaxOlWinlen == 5       \* largest frame length N of an OL engine
MaxOlLen  == 8         \* longest input signal of an OL run
MaxOlExtraFlush == 5   \* largest extra_samples_to_flush of an OL engine
MaxExtra  == 2         \* largest extra_samples_to_skip / extra_samples_to_flush

\* the values of the input samples, and the window weights (in units above
\* 2*eps; the weight 0 stands for every weight below 2*eps)
Samples == 0..1
Weights == 0..2

\* --------------------------------------------------------------- constants
\* std::numeric_limits<int>::max()
IntMax == 2147483647
\* ----------------------------------------------------------------- helpers
Min(a, b) == IF a < b THEN a ELSE b
Max(a, b) == IF a > b THEN a ELSE b
Abs(a) == IF a < 0 THEN -a ELSE a

RECURSIVE GCD(_, _)
GCD(a, b) == IF b = 0 THEN a ELSE GCD(b, a % b)

\* a / b in exact arithmetic (b > 0), as a reduced fraction
Divide(a, b) ==
    LET g == GCD(Abs(a), b)
    IN  <<a \div g, b \div g>>

\* the float x as an output sample
Float(x) == <<x, 1>>

\* C++ integer division (truncation toward zero), b > 0
IntDiv(a, b) == IF a >= 0 THEN a \div b ELSE -((-a) \div b)

\* ringbuffer::push_back(value, count)
Fill(value, count) == [i \in 1..count |-> value]

\* ringbuffer::push_back(src, start, size): the slice that is appended
Slice(src, start, size) == SubSeq(src, start + 1, start + size)

\* ringbuffer::pop_front(n): "just clears all if not enough to be popped"
pop_front(d, n) == IF n >= Len(d) THEN <<>> ELSE SubSeq(d, n + 1, Len(d))

\* a ring buffer: logical content d and capacity size_max
Ring(d, size_max) == [d |-> d, size_max |-> size_max]

\* the null output pointer (pout = nullptr): no buffer, told apart by its
\* negative capacity
nullptr == Ring(<<>>, -1)

\* ------------------------------------------------------------ the engine
winlen(ab) == Len(ab.m_win)

latency_mut(ab) == winlen(ab) - 1

latency(ab) == winlen(ab)

\* a status reset that does not announce a first frame
status_reset_mut ==
    [first_input_frame |-> FALSE, last_frame |-> FALSE, padding_start |-> FALSE,
     padding_end |-> FALSE, flushing |-> FALSE, finished |-> FALSE,
     input_win_center_idx |-> 0, output_win_center_idx |-> 0]

\* proc_status::reset()
status_reset ==
    [first_input_frame |-> TRUE, last_frame |-> FALSE, padding_start |-> FALSE,
     padding_end |-> FALSE, flushing |-> FALSE, finished |-> FALSE,
     input_win_center_idx |-> 0, output_win_center_idx |-> 0]

\* a reset() that leaves the output ring as it is
reset_mut(ab) ==
    LET skip0 == (winlen(ab) - 1) \div 2
    IN  [ab EXCEPT
          !.m_frame_rolling = Fill(0, skip0),
          !.m_out_sum = Fill(0, winlen(ab)),
          !.m_out_sum_win = Fill(0, winlen(ab)),
          !.m_status = [status_reset EXCEPT !.padding_start = TRUE],
          !.m_first_frame_at_t0_samples_to_skip = skip0 + ab.m_extra_samples_to_skip,
          !.m_flush_nb_samples_total = 0,
          !.m_input_length = 0,
          !.m_input_win_center_idx = 0,
          !.m_input_win_center_idx_next = 0,
          !.m_output_win_center_idx = 0,
          !.m_output_length = 0,
          !.m_realttime_prepad_latency_remaining = latency(ab),
          !.m_stat_realtime_out_size_min = IntMax,
          !.nb_imperfect_reconstruction = 0,
          !.proc_frame_calls = <<>>]

\* ola::reset(): everything but the window and the configuration
reset(ab) ==
    LET skip0 == (winlen(ab) - 1) \div 2
    IN  [ab EXCEPT
          !.m_frame_rolling = Fill(0, skip0),
          !.m_out_sum = Fill(0, winlen(ab)),
          !.m_out_sum_win = Fill(0, winlen(ab)),
          !.m_out = Ring(<<>>, ab.m_out.size_max),
          !.m_status = [status_reset EXCEPT !.padding_start = TRUE],
          !.m_first_frame_at_t0_samples_to_skip = skip0 + ab.m_extra_samples_to_skip,
          !.m_flush_nb_samples_total = 0,
          !.m_input_length = 0,
          !.m_input_win_center_idx = 0,
          !.m_input_win_center_idx_next = 0,
          !.m_output_win_center_idx = 0,
          !.m_output_length = 0,
          !.m_realttime_prepad_latency_remaining = latency(ab),
          !.m_stat_realtime_out_size_min = IntMax,
          !.nb_imperfect_reconstruction = 0,
          !.proc_frame_calls = <<>>]

\* ola_builder::build(): allocates the buffers, stores the configuration and
\* ends with reset().  cfg.win is the window (win_hamming by default, or the
\* one a derived class stores in the protected m_win).
build(cfg) ==
    reset([m_win |-> cfg.win,
           m_timestep |-> cfg.timestep,
           m_extra_samples_to_skip |-> cfg.extra_samples_to_skip,
           m_extra_samples_to_flush |-> cfg.extra_samples_to_flush,
           m_target_output_length |-> cfg.target_output_length,
           m_frame_rolling |-> <<>>,
           m_frame_input |-> Fill(0, Len(cfg.win)),
           m_frame_output |-> Fill(0, Len(cfg.win)),
           m_out_sum |-> <<>>,
           m_out_sum_win |-> <<>>,
           m_out |-> Ring(<<>>, Max(cfg.output_buffer_size_max,
                                    Len(cfg.win) + cfg.timestep)),
           m_status |-> status_reset,
           m_first_frame_at_t0_samples_to_skip |-> 0,
           m_flush_nb_samples_total |-> 0,
           m_input_length |-> 0,
           m_input_win_center_idx |-> 0,
           m_input_win_center_idx_next |-> 0,
           m_output_win_center_idx |-> 0,
           m_output_length |-> 0,
           m_realttime_prepad_latency_remaining |-> -1,
           m_stat_realtime_out_size_min |-> IntMax,
           nb_imperfect_reconstruction |-> 0,
           proc_frame_calls |-> <<>>,
           frame_log |-> FALSE,
           abort |-> FALSE])

\* a proc_frame() that forgets the window
proc_frame_mut(in, win) == in

\* ola::proc_frame(): out = in; out *= win()
proc_frame(in, win) == [i \in 1..Len(in) |-> in[i] * win[i]]

\* the loop of proc_win that replaces a window sum below 2*eps by 1: the
\* weights are multiples of a unit above 2*eps, so "< 2*eps" is "< 1"
guard_win(sum_win, n) ==
    [i \in 1..Len(sum_win) |-> IF i <= n /\ sum_win[i] < 1 THEN 1 ELSE sum_win[i]]

\* a failure counter that counts every written sample
nb_below_eps_mut(sum_win, n) == n

nb_below_eps(sum_win, n) == Cardinality({i \in 1..n : sum_win[i] < 1})

\* ringbuffer::divide_equal_range(rb, size): the first size entries are
\* divided, the others are left alone
divide_equal_range(d, rb, size) ==
    [i \in 1..Len(d) |-> IF i <= size THEN Divide(d[i], rb[i]) ELSE d[i]]

\* a push_back(value, count) that appends one entry too few
push_back_mut(d, value, count) == d \o Fill(value, Max(count - 1, 0))

\* ringbuffer::push_back(value, count)
push_back(d, value, count) == d \o Fill(value, count)

\* a counter of samples to skip that is never decremented
samples_to_skip_left_mut(skip, nb_topop) == skip

\* m_first_frame_at_t0_samples_to_skip -= nb_topop
samples_to_skip_left(skip, nb_topop) == skip - nb_topop

\* a proc_win() that drops no sample of the first frames
nb_samples_to_skip_mut(skip, nb_samples_to_output) == 0

\* nb_topop of proc_win(): the samples of this frame dropped because they lie
\* before t = 0 (ola.cpp:68-70)
nb_samples_to_skip(skip, nb_samples_to_output) ==
    IF skip > 0 THEN Min(skip, nb_samples_to_output) ELSE 0

\* a rolling buffer that loses one sample more than the time step
frame_rolling_next_mut(ab) == pop_front(ab.m_frame_rolling, ab.m_timestep + 1)

\* m_frame_rolling.pop_front(m_timestep) (ola.cpp:56)
frame_rolling_next(ab) == pop_front(ab.m_frame_rolling, ab.m_timestep)

\* ola::proc_win(pout, nb_samples_to_output); pout is a ring buffer.
\* The result holds the engine, the output buffer and the returned count.
proc_win_frame(ab, pout, nb_samples_to_output) ==
    LET frame_input == ab.m_frame_rolling
        in_center == ab.m_input_win_center_idx_next
        out_center == -ab.m_first_frame_at_t0_samples_to_skip + ab.m_output_length
                      + (winlen(ab) - 1) \div 2
        frame_output == proc_frame(frame_input, ab.m_win)
        rolling == frame_rolling_next(ab)
        sum1 == [i \in 1..winlen(ab) |-> ab.m_out_sum[i] + frame_output[i]]
        sum_win1 == [i \in 1..winlen(ab) |-> ab.m_out_sum_win[i] + ab.m_win[i]]
        skip == ab.m_first_frame_at_t0_samples_to_skip
        nb_topop == nb_samples_to_skip(skip, nb_samples_to_output)
        remains == nb_samples_to_output - nb_topop
        sum2 == pop_front(sum1, nb_topop)
        sum_win2 == pop_front(sum_win1, nb_topop)
        sum_win3 == guard_win(sum_win2, remains)
        sum3 == divide_equal_range(sum2, sum_win3, remains)
        asserts == /\ Len(frame_input) > 0
                   /\ in_center >= 0
                   /\ Len(pout.d) + remains <= pout.size_max
    IN  IF ~asserts
        THEN [ab |-> [ab EXCEPT !.abort = TRUE], pout |-> pout, ret |-> 0]
        ELSE [ab |-> [ab EXCEPT
                       !.m_frame_input = frame_input,
                       !.m_frame_output = frame_output,
                       !.m_input_win_center_idx = in_center,
                       !.m_output_win_center_idx = out_center,
                       !.m_status = [ab.m_status EXCEPT
                                      !.input_win_center_idx = in_center,
                                      !.output_win_center_idx = out_center,
                                      !.first_input_frame = FALSE,
                                      !.padding_start = IF skip > 0 THEN @ ELSE FALSE],
                       !.m_frame_rolling = rolling,
                       !.m_first_frame_at_t0_samples_to_skip = samples_to_skip_left(skip, nb_topop),
                       !.nb_imperfect_reconstruction = @ + nb_below_eps(sum_win2, remains),
                       !.m_output_length = @ + remains,
                       !.m_out_sum = push_back(pop_front(sum3, remains), 0,
                                               nb_samples_to_output),
                       !.m_out_sum_win = push_back(pop_front(sum_win3, remains), 0,
                                                   nb_samples_to_output)],
              pout |-> [pout EXCEPT !.d = @ \o Slice(sum3, 0, remains)],
              ret |-> nb_samples_to_output]

\* proc_frame_calls is the history of the calls of proc_frame() since the
\* last reset(): for each call the size of the frame, its centre index, the
\* last_frame flag of its status, the number of samples proc_win() popped
\* from the accumulators for it, and the sizes of the two accumulators when
\* proc_win() returns; the frame itself when frame_log is set.  r is the
\* result of proc_win_frame(), first_input_frame the flag of the status that
\* proc_frame() received.
proc_frame_called(r, first_input_frame) ==
    IF r.ab.abort
    THEN r
    ELSE [r EXCEPT !.ab.proc_frame_calls = Append(@,
            [in_size |-> Len(r.ab.m_frame_input),
             input_win_center_idx |-> r.ab.m_status.input_win_center_idx,
             last_frame |-> r.ab.m_status.last_frame,
             first_input_frame |-> first_input_frame,
             output_win_center_idx |-> r.ab.m_status.output_win_center_idx,
             nb_samples_to_output |-> r.ret,
             frame_input |-> IF r.ab.frame_log THEN r.ab.m_frame_input ELSE <<>>,
             out_sum_size |-> Len(r.ab.m_out_sum),
             out_sum_win_size |-> Len(r.ab.m_out_sum_win)])]

\* proc_win() with its call of proc_frame() recorded
proc_win(ab, pout, nb_samples_to_output) ==
    proc_frame_called(proc_win_frame(ab, pout, nb_samples_to_output),
                      ab.m_status.first_input_frame)

\* a process_input_available() that counts the whole ring as free
process_input_available_mut(ab) ==
    IntDiv(ab.m_out.size_max, ab.m_timestep) * ab.m_timestep

\* ola::process_input_available()
process_input_available(ab) ==
    LET available_out_space == ab.m_out.size_max - Len(ab.m_out.d)
        nb_frames_possible == IntDiv(available_out_space, ab.m_timestep)
    IN  nb_frames_possible * ab.m_timestep

\* a fill of the rolling buffer that takes the rest of the batch at once
nb_samples_for_winlen_mut(ab, in, in_n) == Len(in) - in_n

\* nb_samples_for_winlen of ola::process(): fill enough for a winlen,
\* without over-reading in
nb_samples_for_winlen(ab, in, in_n) ==
    Min(winlen(ab) - Len(ab.m_frame_rolling), Len(in) - in_n)

\* the loop of ola::process(): in_n input samples are consumed so far
RECURSIVE process_loop(_, _, _, _, _)
process_loop(ab, in, in_n, pout, nb_output) ==
    IF ab.abort \/ in_n >= Len(in)
    THEN [ab |-> ab, pout |-> pout, ret |-> nb_output]
    ELSE LET nb_samples == nb_samples_for_winlen(ab, in, in_n)
             ab1 == [ab EXCEPT !.m_frame_rolling =
                                  @ \o Slice(in, in_n, nb_samples)]
             w == proc_win(ab1, pout, ab.m_timestep)
         IN  IF Len(ab1.m_frame_rolling) = winlen(ab)
             THEN process_loop(
                      IF w.ab.abort THEN w.ab
                      ELSE [w.ab EXCEPT !.m_input_win_center_idx_next = @ + ab.m_timestep],
                      in, in_n + nb_samples, w.pout, nb_output + w.ret)
             ELSE process_loop(ab1, in, in_n + nb_samples, pout, nb_output)

\* a process() that does not look at m_status.finished
process_mut(ab, in, pout) ==
    LET ab1 == [ab EXCEPT !.m_input_length = @ + Len(in)]
        r == process_loop(ab1, in, 0, IF pout = nullptr THEN ab.m_out ELSE pout, 0)
    IN  IF pout = nullptr
        THEN [ab |-> [r.ab EXCEPT !.m_out = r.pout], pout |-> nullptr, ret |-> r.ret]
        ELSE r

\* ola::process(in, pout): pout = nullptr selects the internal ring m_out
process(ab, in, pout) ==
    IF ab.m_status.finished
    THEN [ab |-> ab, pout |-> pout, ret |-> 0]
    ELSE LET ab1 == [ab EXCEPT !.m_input_length = @ + Len(in)]
             r == process_loop(ab1, in, 0, IF pout = nullptr THEN ab.m_out ELSE pout, 0)
         IN  IF pout = nullptr
             THEN [ab |-> [r.ab EXCEPT !.m_out = r.pout], pout |-> nullptr, ret |-> r.ret]
             ELSE r

\* a flush_available() that forgets the rolling buffer
flush_available_mut(ab) == ab.m_flush_nb_samples_total

\* ola::flush_available()
flush_available(ab) ==
    IF ab.m_status.flushing
    THEN ab.m_flush_nb_samples_total
    ELSE Len(ab.m_frame_rolling)
         + (IF ab.m_extra_samples_to_flush > 0 THEN ab.m_extra_samples_to_flush ELSE 0)

\* the while loop of ola::flush(), up to its break or exit
RECURSIVE flush_loop(_, _, _, _)
flush_loop(ab, pout, chunk_size_max, nb_samples_output_this_flush) ==
    LET stop == [ab |-> ab, pout |-> pout, ret |-> nb_samples_output_this_flush]
        zeros_wanted == winlen(ab) - Len(ab.m_frame_rolling)
        zeros_needed == IF zeros_wanted > 0 /\ chunk_size_max > 0
                        THEN Min(zeros_wanted, chunk_size_max) ELSE zeros_wanted
        ab1 == IF zeros_needed > 0
               THEN [ab EXCEPT !.m_status.padding_end = TRUE,
                               !.m_frame_rolling = @ \o Fill(0, zeros_needed)]
               ELSE ab
        is_last == ab.m_flush_nb_samples_total <= ab.m_timestep
        nb1 == IF is_last THEN ab.m_flush_nb_samples_total ELSE ab.m_timestep
        has_target == ab.m_target_output_length > 0
        remaining_to_target == ab.m_target_output_length - ab.m_output_length
        cut == has_target /\ remaining_to_target < nb1
        nb_samples_to_flush == IF cut THEN remaining_to_target ELSE nb1
        ab2 == [ab1 EXCEPT !.m_status.last_frame = IF is_last \/ cut THEN TRUE ELSE @]
        w == proc_win(ab2, pout, nb_samples_to_flush)
        ab3 == [w.ab EXCEPT !.m_input_win_center_idx_next = @ + ab.m_timestep,
                            !.m_flush_nb_samples_total = @ - w.ret]
    IN  IF ab.abort \/ ab.m_flush_nb_samples_total <= 0 THEN stop
        ELSE IF chunk_size_max > 0 /\ nb_samples_output_this_flush >= chunk_size_max
        THEN stop
        ELSE IF Len(ab1.m_frame_rolling) # winlen(ab)
        THEN [stop EXCEPT !.ab = ab1]
        ELSE IF has_target /\ remaining_to_target <= 0
        THEN [stop EXCEPT !.ab = [ab1 EXCEPT !.m_status.last_frame = IF is_last THEN TRUE ELSE @,
                                             !.m_status.finished = TRUE,
                                             !.m_flush_nb_samples_total = 0]]
        ELSE IF w.ab.abort
        THEN [ab |-> w.ab, pout |-> w.pout, ret |-> nb_samples_output_this_flush]
        ELSE IF has_target /\ ab3.m_output_length >= ab.m_target_output_length
        THEN [ab |-> [ab3 EXCEPT !.m_status.finished = TRUE,
                                 !.m_flush_nb_samples_total = 0],
              pout |-> w.pout, ret |-> nb_samples_output_this_flush + w.ret]
        ELSE flush_loop(ab3, w.pout, chunk_size_max, nb_samples_output_this_flush + w.ret)

\* an end of flush() that sets finished and keeps the rolling buffer
flush_end_mut(ab, chunk_size_max) ==
    IF ~(chunk_size_max > 0 \/ ab.m_flush_nb_samples_total = 0)
    THEN [ab EXCEPT !.abort = TRUE]
    ELSE IF ab.m_flush_nb_samples_total <= 0
    THEN [ab EXCEPT !.m_status.finished = TRUE,
                    !.abort = ab.m_flush_nb_samples_total # 0]
    ELSE ab

\* the end of ola::flush(), after the loop (ola.cpp:241-249)
flush_end(ab, chunk_size_max) ==
    IF ~(chunk_size_max > 0 \/ ab.m_flush_nb_samples_total = 0)
    THEN [ab EXCEPT !.abort = TRUE]
    ELSE IF ab.m_flush_nb_samples_total <= 0
    THEN [ab EXCEPT !.m_frame_rolling = <<>>, !.m_status.finished = TRUE,
                    !.abort = ab.m_flush_nb_samples_total # 0]
    ELSE ab

\* ola::flush(chunk_size_max, pout)
flush(ab, chunk_size_max, pout) ==
    IF ab.m_status.finished
    THEN [ab |-> ab, pout |-> pout, ret |-> 0]
    ELSE LET ab1 == IF ~ab.m_status.flushing
                    THEN [ab EXCEPT !.m_flush_nb_samples_total = flush_available(ab),
                                    !.m_status.flushing = TRUE]
                    ELSE ab
             r == flush_loop(ab1, IF pout = nullptr THEN ab.m_out ELSE pout,
                             chunk_size_max, 0)
             ab2 == IF r.ab.abort THEN r.ab ELSE flush_end(r.ab, chunk_size_max)
         IN  IF pout = nullptr
             THEN [ab |-> [ab2 EXCEPT !.m_out = r.pout], pout |-> nullptr, ret |-> r.ret]
             ELSE [ab |-> ab2, pout |-> r.pout, ret |-> r.ret]

fetch_available(ab) == Len(ab.m_out.d)

\* a fetch() that takes no notice of chunk_size_max
fetch_mut(ab, pout, chunk_size_max) ==
    LET size == Len(ab.m_out.d)
    IN  IF size = 0 THEN [ab |-> ab, pout |-> pout, ret |-> 0]
        ELSE IF Len(pout.d) + size > pout.size_max
        THEN [ab |-> [ab EXCEPT !.abort = TRUE], pout |-> pout, ret |-> 0]
        ELSE [ab |-> [ab EXCEPT !.m_out.d = <<>>],
              pout |-> [pout EXCEPT !.d = @ \o ab.m_out.d],
              ret |-> size]

\* ola::fetch(pout, chunk_size_max)
fetch(ab, pout, chunk_size_max) ==
    LET size == Len(ab.m_out.d)
        chunk_size == IF chunk_size_max > 0 THEN Min(size, chunk_size_max) ELSE size
    IN  IF size = 0 THEN [ab |-> ab, pout |-> pout, ret |-> 0]
        ELSE IF Len(pout.d) + chunk_size > pout.size_max
        THEN [ab |-> [ab EXCEPT !.abort = TRUE], pout |-> pout, ret |-> 0]
        ELSE [ab |-> [ab EXCEPT !.m_out.d = pop_front(@, chunk_size)],
              pout |-> [pout EXCEPT !.d = @ \o Slice(ab.m_out.d, 0, chunk_size)],
              ret |-> chunk_size]

\* ola::process_offline(in, pout)
process_offline(ab, in, pout) ==
    LET p == process(ab, in, pout)
    IN  flush(p.ab, -1, p.pout)

\* while (fetch(pout) > 0) {}: f is what the fetch of this turn returned
RECURSIVE fetch_while(_, _, _)
fetch_while_next(f, chunk_size_max) ==
    IF f.ab.abort \/ f.ret <= 0 THEN f
    ELSE fetch_while(f.ab, f.pout, chunk_size_max)

fetch_while(ab, pout, chunk_size_max) ==
    fetch_while_next(fetch(ab, pout, chunk_size_max), chunk_size_max)

\* the first loop of process_offline(in, pout, chunk_size): process(chunk_in)
\* into the internal ring, then fetch everything (ola.cpp:286-296); f is the
\* engine and the output after the turn that ended at in_n
RECURSIVE process_offline_chunks(_, _, _, _, _)
process_offline_chunks_next(f, in, chunk_size, in_n) ==
    process_offline_chunks(f.ab, in, f.pout, chunk_size, in_n)

process_offline_chunks(ab, in, pout, chunk_size, in_n) ==
    IF ab.abort \/ in_n >= Len(in) THEN [ab |-> ab, pout |-> pout]
    ELSE process_offline_chunks_next(
             fetch_while(process(ab, Slice(in, in_n, Min(chunk_size, Len(in) - in_n)),
                                 nullptr).ab, pout, -1),
             in, chunk_size, in_n + Min(chunk_size, Len(in) - in_n))

\* the second loop: flush(chunk_size) into the internal ring and
\* fetch(pout, chunk_size), until a turn fetches nothing (ola.cpp:298-303);
\* fe is what the fetch of this turn returned
RECURSIVE process_offline_flush(_, _, _)
process_offline_flush_next(fe, chunk_size) ==
    IF fe.ab.abort \/ fe.ret <= 0 THEN [ab |-> fe.ab, pout |-> fe.pout]
    ELSE process_offline_flush(fe.ab, fe.pout, chunk_size)

process_offline_flush(ab, pout, chunk_size) ==
    process_offline_flush_next(
        fetch(flush(ab, chunk_size, nullptr).ab, pout, chunk_size), chunk_size)

\* the flush loop on what the input loop left
process_offline_flush_after(p, chunk_size) ==
    IF p.ab.abort THEN p ELSE process_offline_flush(p.ab, p.pout, chunk_size)

\* ola::process_offline(in, pout, chunk_size)
process_offline_chunk_size(ab, in, pout, chunk_size) ==
    process_offline_flush_after(process_offline_chunks(ab, in, pout, chunk_size, 0),
                                chunk_size)

stat_realtime_out_size_min_mut(out_size_min, out_size) == out_size_min

\* the statistic kept at the end of process_realtime (ola.cpp:342)
stat_realtime_out_size_min(out_size_min, out_size) == Min(out_size_min, out_size)

\* ola::process_realtime() after its call of process(in): ab is the engine
\* as process left it, chunk_size_req the size of in (ola.cpp:310-342)
realtime_deliver(ab, chunk_size_req, pout) ==
    LET available == fetch_available(ab)
        prepad == ab.m_realttime_prepad_latency_remaining
        zeros_pre == Min(prepad, chunk_size_req)
        to_fetch_pre == chunk_size_req - zeros_pre
        padded == [pout EXCEPT !.d = @ \o Fill(Float(0), zeros_pre)]
        ab_pre == [ab EXCEPT !.m_realttime_prepad_latency_remaining = @ - zeros_pre]
        to_fetch_post == Min(chunk_size_req, available)
        f_post == fetch(ab, pout, to_fetch_post)
        zeros_post == chunk_size_req - to_fetch_post
        r == IF prepad > 0
             THEN IF to_fetch_pre > 0 /\ available >= to_fetch_pre
                  THEN fetch(ab_pre, padded, to_fetch_pre)
                  ELSE [ab |-> ab_pre, pout |-> padded, ret |-> 0]
             ELSE IF available >= chunk_size_req
             THEN fetch(ab, pout, chunk_size_req)
             ELSE [f_post EXCEPT !.pout.d = @ \o Fill(Float(0), zeros_post)]
    IN  IF ab.abort \/ prepad < 0 THEN [ab |-> [ab EXCEPT !.abort = TRUE], pout |-> pout]
        ELSE IF r.ab.abort THEN [ab |-> r.ab, pout |-> r.pout]
        ELSE [ab |-> [r.ab EXCEPT !.m_stat_realtime_out_size_min =
                                     stat_realtime_out_size_min(@, Len(r.ab.m_out.d))],
              pout |-> r.pout]

\* ola::process_realtime(in, pout)
process_realtime(ab, in, pout) ==
    realtime_deliver(process(ab, in, nullptr).ab, Len(in), pout)

\* ---------------------------------------------------------------------------
\* The OL engine (ol.cpp): frame segmentation without synthesis.  Its record
\* holds the members of phaseshift::ol and the history of its proc_frame()
\* calls; a failing assertion sets abort.

\* ol_builder::build(): the default Hamming window, the priming zeros
ol_build(cfg) ==
    LET skip0 == IF cfg.first_frame_at_t0 THEN (Len(cfg.win) - 1) \div 2 ELSE 0
    IN  [m_win |-> cfg.win,
         m_timestep |-> cfg.timestep,
         m_first_frame_at_t0 |-> cfg.first_frame_at_t0,
         m_extra_samples_to_skip |-> 0,
         m_extra_samples_to_flush |-> cfg.extra_samples_to_flush,
         m_frame_rolling |-> Fill(0, skip0),
         m_frame_input |-> <<>>,
         m_first_frame_at_t0_samples_to_skip |-> skip0 + cfg.extra_samples_to_skip,
         m_status |-> [first_frame |-> TRUE, last_frame |-> FALSE,
                       skipping_samples_at_start |-> skip0 + cfg.extra_samples_to_skip > 0,
                       fully_covered_by_window |-> skip0 + cfg.extra_samples_to_skip = 0,
                       flushing |-> FALSE],
         m_win_center_idx |-> 0,
         proc_frame_calls |-> <<>>,
         abort |-> FALSE]

\* ol::reset()
ol_reset(ab) ==
    LET skip0 == IF ab.m_first_frame_at_t0 THEN (winlen(ab) - 1) \div 2 ELSE 0
        skip == skip0 + ab.m_extra_samples_to_skip
    IN  IF Len(ab.m_frame_input) # winlen(ab)
        THEN [ab EXCEPT !.abort = TRUE]
        ELSE [ab EXCEPT
               !.m_frame_rolling = Fill(0, skip0),
               !.m_frame_input = <<>>,
               !.m_first_frame_at_t0_samples_to_skip = skip,
               !.m_status = [first_frame |-> TRUE, last_frame |-> FALSE,
                             skipping_samples_at_start |-> skip > 0,
                             fully_covered_by_window |-> skip = 0,
                             flushing |-> FALSE],
               !.m_win_center_idx = 0,
               !.proc_frame_calls = <<>>]

\* a centre index that advances by one sample too many
ol_win_center_idx_next_mut(ab) == ab.m_win_center_idx + ab.m_timestep + 1

\* m_win_center_idx += m_timestep
ol_win_center_idx_next(ab) == ab.m_win_center_idx + ab.m_timestep

\* ol::proc_win(nb_samples_to_flush): proc_frame(m_frame_input, m_status,
\* m_win_center_idx) is recorded with the centre index it is given
ol_proc_win(ab, nb_samples_to_flush) ==
    LET skip == ab.m_first_frame_at_t0_samples_to_skip
        nb_topop == IF skip > 0 THEN Min(skip, nb_samples_to_flush) ELSE 0
    IN  IF Len(ab.m_frame_rolling) = 0
        THEN [ab EXCEPT !.abort = TRUE]
        ELSE [ab EXCEPT
               !.m_frame_input = ab.m_frame_rolling,
               !.proc_frame_calls = Append(@,
                   [in_size |-> Len(ab.m_frame_rolling),
                    input_win_center_idx |-> ab.m_win_center_idx,
                    first_frame |-> ab.m_status.first_frame,
                    last_frame |-> ab.m_status.last_frame]),
               !.m_status.first_frame = FALSE,
               !.m_first_frame_at_t0_samples_to_skip = skip - nb_topop,
               !.m_frame_rolling = pop_front(ab.m_frame_rolling, ab.m_timestep),
               !.m_win_center_idx = ol_win_center_idx_next(ab)]

\* the loop of ol::proc(): in_n input samples are consumed so far
RECURSIVE ol_proc_loop(_, _, _)
ol_proc_loop(ab, in, in_n) ==
    IF ab.abort \/ in_n >= Len(in)
    THEN ab
    ELSE LET nb_samples == nb_samples_for_winlen(ab, in, in_n)
             ab1 == [ab EXCEPT !.m_frame_rolling = @ \o Slice(in, in_n, nb_samples)]
             skip == ab.m_first_frame_at_t0_samples_to_skip
             ab2 == [ab1 EXCEPT !.m_status.skipping_samples_at_start = skip > 0,
                                !.m_status.fully_covered_by_window = skip = 0]
         IN  IF Len(ab1.m_frame_rolling) = winlen(ab)
             THEN ol_proc_loop(ol_proc_win(ab2, ab.m_timestep), in, in_n + nb_samples)
             ELSE ol_proc_loop(ab1, in, in_n + nb_samples)

\* ol::proc(in)
ol_proc(ab, in) == ol_proc_loop(ab, in, 0)

\* the do-while loop of ol::flush()
RECURSIVE ol_flush_loop(_, _, _)
ol_flush_loop(ab, total, nb_samples_to_flush) ==
    LET ab1 == [ab EXCEPT !.m_frame_rolling =
                             @ \o Fill(0, winlen(ab) - Len(ab.m_frame_rolling))]
        is_last == total <= winlen(ab) \div 2 + ab.m_timestep
        nb == IF is_last THEN total ELSE nb_samples_to_flush
        ab2 == [ab1 EXCEPT
                 !.m_status.last_frame = IF is_last THEN TRUE ELSE @,
                 !.m_status.skipping_samples_at_start =
                     ab.m_first_frame_at_t0_samples_to_skip > 0,
                 !.m_status.fully_covered_by_window = FALSE,
                 !.m_status.flushing = TRUE]
        ab3 == ol_proc_win(ab2, nb)
    IN  IF ab3.abort \/ total - nb <= 0
        THEN ab3
        ELSE ol_flush_loop(ab3, total - nb, nb)

\* a total to flush that counts two more frames
nb_samples_to_flush_total_mut(ab) ==
    Len(ab.m_frame_rolling) + ab.m_extra_samples_to_flush + 2 * winlen(ab) + 2

\* nb_samples_to_flush_total of ol::flush(): the samples of the previous
\* inputs which remain to be processed, and the extra ones
nb_samples_to_flush_total(ab) ==
    Len(ab.m_frame_rolling) + ab.m_extra_samples_to_flush

\* ol::flush()
ol_flush(ab) ==
    IF Len(ab.m_frame_rolling) = 0
    THEN ab
    ELSE IF ~(Len(ab.m_frame_rolling) < winlen(ab))
    THEN [ab EXCEPT !.abort = TRUE]
    ELSE ol_flush_loop(ab, nb_samples_to_flush_total(ab), ab.m_timestep)

\* ------------------------------------------------------------------ state
VARIABLES
    ab,          \* the engine (phaseshift::ola)
    signal_in,   \* the input signal of the run
    signal_out,  \* the output buffer of the caller
    chunk_size,  \* the chunk size of the run
    call         \* the last call made on the engine and what it returned

vars == <<ab, signal_in, signal_out, chunk_size, call>>

\* sequences over S of length 0..n
SeqsUpTo(S, n) == UNION {[1..k -> S] : k \in 0..n}

Signals == SeqsUpTo(Samples, MaxLen)

\* the windows of length N that a derived class may store in m_win
Windows(N) == [1..N -> Weights]

\* win_hamming(N): positive, symmetric, lowest at both ends.  Only the shape
\* is kept: the weights are integers, 1 at the ends and 2 inside.
win_hamming(N) == [n \in 1..N |-> IF n = 1 \/ n = N THEN 1 ELSE 2]

\* what the builder is given: 0 < timestep < winlen (the asserts of build())
Configs(Wins, ExtraSkip, ExtraFlush, BufferSizes, Targets) ==
    { [win |-> w, timestep |-> h, extra_samples_to_skip |-> xs,
       extra_samples_to_flush |-> xf, output_buffer_size_max |-> b,
       target_output_length |-> t] :
        w \in Wins, h \in 1..(MaxWinlen - 1),
        xs \in ExtraSkip, xf \in ExtraFlush, b \in BufferSizes, t \in Targets }

AllWindows == UNION {Windows(N) : N \in 2..MaxWinlen}
HammingWindows == {win_hamming(N) : N \in 2..MaxWinlen}

ValidConfig(cfg) == cfg.timestep < Len(cfg.win)

Call(op, size, ret) == [op |-> op, size |-> size, ret |-> ret]

\* ------------------------------------------- offline run (ola.cpp:526-534)
\* audio_block_ola_test, mode_offline: signal_out is allocated with the size
\* of the signal, then a single process_offline call.
InitOffline ==
    /\ \E cfg \in Configs(AllWindows, {0}, {0}, {-1}, {-1}) :
          ValidConfig(cfg) /\ ab = build(cfg)
    /\ signal_in \in Signals
    /\ signal_out = Ring(<<>>, Len(signal_in))
    /\ chunk_size = 0
    /\ call = Call("build", 0, 0)

OfflineRun ==
    /\ call.op = "build"
    /\ LET r == process_offline(ab, signal_in, signal_out)
       IN  /\ ab' = r.ab
           /\ signal_out' = r.pout
           /\ call' = Call("process_offline", Len(signal_in), r.ret)
    /\ UNCHANGED <<signal_in, chunk_size>>

NextOffline == OfflineRun

SpecOffline == InitOffline /\ [][NextOffline]_vars

PositiveWindow == \A i \in 1..winlen(ab) : ab.m_win[i] >= 1

\* C1: with the pass-through transform and a window of strictly positive
\* weights, every sample that process_offline puts in the output equals the
\* input sample of the same index, in exact arithmetic.
C1_PerfectReconstruction ==
    (call.op = "process_offline" /\ PositiveWindow) =>
        /\ ~ab.abort
        /\ \A n \in 1..Len(signal_out.d) :
              n <= Len(signal_in) /\ signal_out.d[n] = Float(signal_in[n])

C1_Witness ==
    /\ call.op = "process_offline" /\ PositiveWindow
    /\ \E i, j \in 1..winlen(ab) : ab.m_win[i] # ab.m_win[j]
    /\ Len(signal_out.d) > winlen(ab)
    /\ \E n \in 1..Len(signal_out.d) : signal_out.d[n] # Float(0)

\* C2: process_offline appends exactly as many samples as the input holds,
\* whatever the window, the frame length, the hop and the input length.
C2_OfflineLength ==
    call.op = "process_offline" =>
        ~ab.abort /\ Len(signal_out.d) = Len(signal_in)

C2_Witness ==
    /\ call.op = "process_offline"
    /\ Len(signal_in) > winlen(ab)
    /\ Len(signal_out.d) = Len(signal_in)
    /\ ab.m_timestep > 1

C2_WitnessEmpty ==
    call.op = "process_offline" /\ Len(signal_in) = 0 /\ ab.m_status.finished

\* ----------------------------------------- streaming run (ola.cpp:537-560)
\* audio_block_ola_test, mode_streaming.  The engine is built with the default
\* ring (output_buffer_size_max = -1) or, as the builder test does
\* (ola.cpp:662), with output_buffer_size_max = chunk_size.
InitStream ==
    /\ chunk_size \in 1..MaxChunk
    /\ \E cfg \in Configs(HammingWindows, {0}, {0}, {-1, chunk_size}, {-1}) :
          ValidConfig(cfg) /\ ab = build(cfg)
    /\ signal_in \in Signals
    /\ signal_out = Ring(<<>>, Len(signal_in))
    /\ call = Call("build", 0, 0)

\* while (pab->fetch_available() > 0) pab->fetch(&signal_out, chunk_size);
RECURSIVE fetch_loop(_, _, _)
fetch_loop(a, pout, chunk_size_max) ==
    IF a.abort \/ fetch_available(a) = 0
    THEN [ab |-> a, pout |-> pout]
    ELSE LET f == fetch(a, pout, chunk_size_max)
         IN  fetch_loop(f.ab, f.pout, chunk_size_max)

\* one turn of the loop while input remains: process(chunk), then fetch
StreamProcess ==
    /\ ~ab.abort /\ ~ab.m_status.finished
    /\ ab.m_input_length < Len(signal_in)
    /\ LET chunk_to_process == Min(chunk_size, Len(signal_in) - ab.m_input_length)
           chunk_in == Slice(signal_in, ab.m_input_length, chunk_to_process)
           p == process(ab, chunk_in, nullptr)
           f == fetch_loop(p.ab, signal_out, chunk_size)
       IN  /\ ab' = f.ab
           /\ signal_out' = f.pout
           /\ call' = Call("process", chunk_to_process, p.ret)
    /\ UNCHANGED <<signal_in, chunk_size>>

\* one turn of the loop once the input is exhausted: flush(chunk_size), fetch
StreamFlush ==
    /\ ~ab.abort /\ ~ab.m_status.finished
    /\ ab.m_input_length >= Len(signal_in)
    /\ LET p == flush(ab, chunk_size, nullptr)
           f == fetch_loop(p.ab, signal_out, chunk_size)
       IN  /\ ab' = f.ab
           /\ signal_out' = f.pout
           /\ call' = Call("flush", chunk_size, p.ret)
    /\ UNCHANGED <<signal_in, chunk_size>>

NextStream == StreamProcess \/ StreamFlush

SpecStream == InitStream /\ [][NextStream]_vars

\* the configuration an engine was built with
ConfigOf(a) ==
    [win |-> a.m_win, timestep |-> a.m_timestep,
     extra_samples_to_skip |-> a.m_extra_samples_to_skip,
     extra_samples_to_flush |-> a.m_extra_samples_to_flush,
     output_buffer_size_max |-> a.m_out.size_max,
     target_output_length |-> a.m_target_output_length]

\* what a single process_offline call on a freshly built engine of the same
\* configuration puts in an empty output buffer
OfflineOutput(a, in) ==
    process_offline(build(ConfigOf(a)), in, Ring(<<>>, Len(in))).pout.d

\* C3: the streaming loop runs to finished for every chunk size and has then
\* delivered exactly the output of a single process_offline call.
C3_StreamingEqualsOffline ==
    /\ ~ab.abort
    /\ ab.m_status.finished => signal_out.d = OfflineOutput(ab, signal_in)

\* ----------------------------------------- real-time run (ola.cpp:562-579)
\* audio_block_ola_test, mode_realtime, with call sizes that vary from call
\* to call.  The caller's buffer has room for every run of the model.
InitRealtime ==
    /\ \E cfg \in Configs(HammingWindows, {0, MaxExtra}, {0}, {-1, MaxChunk}, {-1}) :
          ValidConfig(cfg) /\ ab = build(cfg)
    /\ signal_in \in Signals
    /\ signal_out = Ring(<<>>, 2 * (MaxLen + MaxWinlen))
    /\ chunk_size = 0
    /\ call = Call("build", 0, 0)

\* pab->process_realtime(chunk_in, &signal_out) with the next chunk_size_req
\* samples of the signal; call.ret is the number of samples appended
Realtime(chunk_size_req) ==
    /\ ~ab.abort
    /\ chunk_size_req <= Len(signal_in) - ab.m_input_length
    /\ LET chunk_in == Slice(signal_in, ab.m_input_length, chunk_size_req)
           r == process_realtime(ab, chunk_in, signal_out)
       IN  /\ ab' = r.ab
           /\ signal_out' = r.pout
           /\ call' = Call("process_realtime", chunk_size_req,
                           Len(r.pout.d) - Len(signal_out.d))
    /\ chunk_size' = chunk_size_req
    /\ UNCHANGED signal_in

\* the end of the stream: flush into the internal ring
RealtimeFlush(chunk_size_max) ==
    /\ ~ab.abort
    /\ ab.m_input_length = Len(signal_in)
    /\ ~ab.m_status.finished
    /\ LET r == flush(ab, chunk_size_max, nullptr)
       IN  /\ ab' = r.ab
           /\ call' = Call("flush", chunk_size_max, r.ret)
    /\ UNCHANGED <<signal_in, signal_out, chunk_size>>

\* pab->reset() (ola.cpp:629): the next run starts on an empty output buffer;
\* call.size is the input length the engine had reached
RealtimeReset ==
    /\ ~ab.abort
    /\ call.op # "build" /\ call.op # "reset"
    /\ ab' = reset(ab)
    /\ signal_out' = [signal_out EXCEPT !.d = <<>>]
    /\ call' = Call("reset", ab.m_input_length, 0)
    /\ chunk_size' = 0
    /\ UNCHANGED signal_in

NextRealtime ==
    \/ \E c \in 0..MaxChunk : Realtime(c)
    \/ \E c \in {-1, 1} : RealtimeFlush(c)
    \/ RealtimeReset

SpecRealtime == InitRealtime /\ [][NextRealtime]_vars

\* C4: every process_realtime call on a non-empty input that returns has
\* appended exactly size(in) samples to the caller's buffer.
C4_RealtimeSameSize ==
    (call.op = "process_realtime" /\ ~ab.abort /\ call.size > 0) => call.ret = call.size

OnlyRealtimeCalls == call.op \in {"build", "reset", "process_realtime"}

UnitImpulse == Len(signal_in) > 0 /\ signal_in[1] > 0
               /\ \A n \in 2..Len(signal_in) : signal_in[n] = 0

JustBuilt(a) ==
    LET b == build(ConfigOf(a))
    IN  /\ a.m_frame_rolling = b.m_frame_rolling
        /\ a.m_out_sum = b.m_out_sum /\ a.m_out_sum_win = b.m_out_sum_win
        /\ a.m_out = b.m_out
        /\ a.m_first_frame_at_t0_samples_to_skip = b.m_first_frame_at_t0_samples_to_skip
        /\ a.m_input_length = b.m_input_length
        /\ a.m_input_win_center_idx = b.m_input_win_center_idx
        /\ a.m_input_win_center_idx_next = b.m_input_win_center_idx_next
        /\ a.m_output_win_center_idx = b.m_output_win_center_idx
        /\ a.m_output_length = b.m_output_length
        /\ a.m_status = b.m_status
        /\ a.m_flush_nb_samples_total = b.m_flush_nb_samples_total
        /\ a.m_realttime_prepad_latency_remaining = b.m_realttime_prepad_latency_remaining
        /\ a.m_stat_realtime_out_size_min = b.m_stat_realtime_out_size_min
        /\ a.nb_imperfect_reconstruction = b.nb_imperfect_reconstruction
        /\ a.m_win = b.m_win /\ a.m_timestep = b.m_timestep
        /\ a.m_extra_samples_to_skip = b.m_extra_samples_to_skip
        /\ a.m_extra_samples_to_flush = b.m_extra_samples_to_flush
        /\ a.m_target_output_length = b.m_target_output_length

\* C8: right after reset() the rolling buffer, the accumulators, the output
\* ring, the skip counter, the cursors, the status flags, the flush total, the
\* real-time pre-pad counter, the statistics and the failure counter are those
\* of a freshly built engine of the same window and configuration.
C8_ResetRestoresBuilt ==
    call.op = "reset" => JustBuilt(ab)

\* a reset of an engine that had taken in more than a frame of input
C8_Witness ==
    /\ call.op = "reset" /\ JustBuilt(ab)
    /\ call.size > winlen(ab)
    /\ ab.m_extra_samples_to_skip > 0

\* ------------------------------------------------- any sequence of calls
\* The engine's primitives under any caller: every call draws its arguments
\* afresh.
\* signal_in is the batch given to the call, signal_out the caller's buffer
\* after it (the caller hands in an empty buffer with room for the call).
TargetLengths == {-1, 2}
ChunkLimits == {-1, 1}

Batches == {Fill(1, n) : n \in 0..MaxChunk}

CallerBuffer == Ring(<<>>, 2 * (MaxLen + MaxWinlen + MaxExtra))

Init ==
    /\ \E cfg \in Configs(HammingWindows, {0}, {0, MaxExtra},
                          {-1, MaxChunk}, TargetLengths) :
          ValidConfig(cfg) /\ ab = build(cfg)
    /\ signal_in = <<>>
    /\ signal_out = CallerBuffer
    /\ chunk_size = 0
    /\ call = Call("build", 0, 0)

\* process(in): into the internal ring
Process(in) ==
    /\ ~ab.abort
    /\ ab.m_input_length + Len(in) <= MaxLen
    /\ LET r == process(ab, in, nullptr)
       IN  /\ ab' = r.ab
           /\ call' = Call("process", Len(in), r.ret)
    /\ signal_in' = in
    /\ signal_out' = CallerBuffer
    /\ UNCHANGED chunk_size

\* process(in, pout): into a buffer of the caller
ProcessOut(in) ==
    /\ ~ab.abort
    /\ ab.m_input_length + Len(in) <= MaxLen
    /\ LET r == process(ab, in, CallerBuffer)
       IN  /\ ab' = r.ab
           /\ signal_out' = r.pout
           /\ call' = Call("process_out", Len(in), r.ret)
    /\ signal_in' = in
    /\ UNCHANGED chunk_size

\* flush(chunk_size_max): into the internal ring
Flush(chunk_size_max) ==
    /\ ~ab.abort
    /\ LET r == flush(ab, chunk_size_max, nullptr)
       IN  /\ ab' = r.ab
           /\ call' = Call("flush", chunk_size_max, r.ret)
    /\ signal_in' = <<>>
    /\ signal_out' = CallerBuffer
    /\ UNCHANGED chunk_size

\* flush(chunk_size_max, pout): into a buffer of the caller
FlushOut(chunk_size_max) ==
    /\ ~ab.abort
    /\ LET r == flush(ab, chunk_size_max, CallerBuffer)
       IN  /\ ab' = r.ab
           /\ signal_out' = r.pout
           /\ call' = Call("flush_out", chunk_size_max, r.ret)
    /\ signal_in' = <<>>
    /\ UNCHANGED chunk_size

\* fetch(pout, chunk_size_max)
Fetch(chunk_size_max) ==
    /\ ~ab.abort
    /\ LET r == fetch(ab, CallerBuffer, chunk_size_max)
       IN  /\ ab' = r.ab
           /\ signal_out' = r.pout
           /\ call' = Call("fetch", chunk_size_max, r.ret)
    /\ signal_in' = <<>>
    /\ UNCHANGED chunk_size

\* reset()
Reset ==
    /\ ~ab.abort
    /\ ab' = reset(ab)
    /\ call' = Call("reset", 0, 0)
    /\ signal_in' = <<>>
    /\ signal_out' = CallerBuffer
    /\ UNCHANGED chunk_size

Next ==
    \/ \E in \in Batches : Process(in)
    \/ \E in \in Batches : ProcessOut(in)
    \/ \E c \in ChunkLimits : Flush(c)
    \/ \E c \in ChunkLimits : FlushOut(c)
    \/ \E c \in ChunkLimits : Fetch(c)
    \/ Reset

Spec == Init /\ [][Next]_vars

floor_available(a) ==
    ((a.m_out.size_max - Len(a.m_out.d)) \div a.m_timestep) * a.m_timestep

\* C6: on a finished engine process and flush return 0 and leave every field
\* of the engine, and the caller's buffer, as they were.
C6_FinishedIsFinal ==
    [][(ab.m_status.finished
        /\ call'.op \in {"process", "process_out", "flush", "flush_out"})
       => (ab' = ab /\ call'.ret = 0 /\ signal_out' = CallerBuffer)]_vars

\* process never sets finished: here a batch was given to a finished engine
C6_Witness ==
    /\ ab.m_status.finished /\ ~ab.abort
    /\ call.op = "process" /\ call.size > 0 /\ call.ret = 0
    /\ ab.m_input_length < MaxLen

\* C7: a finished engine has an empty rolling buffer, whether flush ended by
\* flushing everything or by reaching target_output_length.
C7_FinishedRollingEmpty ==
    ab.m_status.finished => Len(ab.m_frame_rolling) = 0

\* finished by the target: the output was cut at target_output_length while
\* more samples than that had been given
C7_Witness ==
    /\ ab.m_status.finished /\ Len(ab.m_frame_rolling) = 0
    /\ ab.m_target_output_length > 0
    /\ ab.m_output_length = ab.m_target_output_length
    /\ ab.m_input_length > ab.m_target_output_length

\* C9: process_input_available() is floor((capacity - size(out)) / H) * H,
\* and a process(batch) into the internal ring with size(batch) at most that
\* value passes the free-space assertion and leaves size(out) <= capacity.
C9_InputAvailable ==
    [][(call'.op = "process" /\ call'.size <= floor_available(ab))
       => /\ process_input_available(ab) = floor_available(ab)
          /\ ~ab'.abort
          /\ Len(ab'.m_out.d) <= ab'.m_out.size_max]_vars

\* a batch of a whole number of hops that filled the ring to its capacity
C9_Witness ==
    /\ call.op = "process" /\ ~ab.abort
    /\ call.size > 0 /\ call.size % ab.m_timestep = 0 /\ call.ret = call.size
    /\ Len(ab.m_out.d) = ab.m_out.size_max
    /\ process_input_available(ab) = 0

\* C10: a process or flush call that meets a destination ring with fewer
\* than H free slots returns, the engine intact, without writing beyond the
\* ring's capacity.
C10_OverflowRefused ==
    call.op \in {"process", "flush"} =>
        ~ab.abort /\ Len(ab.m_out.d) <= ab.m_out.size_max

\* C11: a flush(chunk_size_max, pout) with chunk_size_max > 0 appends at most
\* chunk_size_max samples to the caller's buffer.
C11_FlushChunkLimit ==
    (call.op = "flush_out" /\ call.size > 0 /\ ~ab.abort)
        => Len(signal_out.d) <= call.size

\* ------------------------------- polled flush (ola.cpp:543-558, any sizes)
\* The loop of the streaming test with a size chosen afresh at every call:
\* each process and each flush goes to the internal ring and is followed by
\* fetches until the ring is empty.
InitPoll ==
    /\ \E cfg \in Configs(HammingWindows, {0}, 0..MaxExtraFlush, {-1}, TargetLengths) :
          ValidConfig(cfg) /\ ab = build(cfg)
    /\ signal_in = <<>>
    /\ signal_out = CallerBuffer
    /\ chunk_size = 0
    /\ call = Call("build", 0, 0)

\* pab->process(chunk_in); while (fetch_available() > 0) fetch(...)
PollProcess(in) ==
    /\ ~ab.abort /\ ~ab.m_status.flushing
    /\ ab.m_input_length + Len(in) <= MaxLen
    /\ LET p == process(ab, in, nullptr)
           f == fetch_loop(p.ab, CallerBuffer, -1)
       IN  /\ ab' = f.ab
           /\ signal_out' = f.pout
           /\ call' = Call("process", Len(in), p.ret)
    /\ signal_in' = in
    /\ chunk_size' = Len(in)

\* pab->flush(chunk_size_max); while (fetch_available() > 0) fetch(...)
PollFlush(chunk_size_max) ==
    /\ ~ab.abort /\ ~ab.m_status.finished
    /\ LET p == flush(ab, chunk_size_max, nullptr)
           f == fetch_loop(p.ab, CallerBuffer, -1)
       IN  /\ ab' = f.ab
           /\ signal_out' = f.pout
           /\ call' = Call("flush", chunk_size_max, p.ret)
    /\ signal_in' = <<>>
    /\ chunk_size' = chunk_size_max

NextPoll ==
    \/ \E in \in Batches : PollProcess(in)
    \/ \E c \in {-1} \cup 1..MaxChunk : PollFlush(c)

SpecPoll == InitPoll /\ [][NextPoll]_vars

\* what remains to do before finished: the samples still to flush, then the
\* zeros still to pad
FlushMeasure(a) ==
    flush_available(a) * (winlen(a) + 1) + (winlen(a) - Len(a.m_frame_rolling))

\* C12: every flush call on a non-finished engine returns; flush(-1) leaves
\* the engine finished, and flush(c) with c >= 1 leaves it finished or
\* strictly nearer to finished, so that finitely many calls reach finished.
C12_FlushTerminates ==
    [][(call'.op = "flush")
       => /\ ~ab'.abort
          /\ \/ ab'.m_status.finished
             \/ call'.size >= 1 /\ FlushMeasure(ab') < FlushMeasure(ab)]_vars

\* C13: fetch(pout, chunk_size_max) moves min(chunk_size_max, size(ring))
\* samples (all of them when chunk_size_max <= 0) from the front of the
\* internal ring to the back of pout, returns that number and changes nothing
\* else; process and flush only append at the back of the ring they write to.
\* Hence the fetched samples are the produced ones, in production order.
C13_FetchFifo ==
    [][/\ (call'.op = "fetch") =>
            LET size == Len(ab.m_out.d)
                k == IF call'.size > 0 THEN Min(call'.size, size) ELSE size
            IN  /\ call'.ret = k
                /\ signal_out'.d = CallerBuffer.d \o SubSeq(ab.m_out.d, 1, k)
                /\ ab' = [ab EXCEPT !.m_out.d = SubSeq(ab.m_out.d, k + 1, size)]
       /\ (call'.op \in {"process", "flush"} /\ ~ab'.abort) =>
            /\ Len(ab'.m_out.d) >= Len(ab.m_out.d)
            /\ SubSeq(ab'.m_out.d, 1, Len(ab.m_out.d)) = ab.m_out.d
       /\ (call'.op \in {"process_out", "flush_out"}) => ab'.m_out = ab.m_out]_vars

\* a limited fetch that took the front sample and left a different one behind
C13_Witness ==
    /\ call.op = "fetch" /\ call.size = 1 /\ call.ret = 1
    /\ Len(signal_out.d) = 1 /\ Len(ab.m_out.d) > 0
    /\ ab.m_out.d[1] # signal_out.d[1]

\* ------------------------------------------- the builder (ola.cpp:396-459)
\* A builder with any settings, valid or not.  An unset timestep or winlen is
\* -1 (ola.h:221-222); fs is a number of samples per second.
SampleRates == {0, 200, 300}

BuilderSettings ==
    [fs : SampleRates, m_timestep : -1..(MaxWinlen - 1), m_winlen : -1..MaxWinlen,
     m_extra_samples_to_skip : 0..MaxExtra]

\* no engine: what the caller holds when build() did not return
NoEngine == [abort |-> TRUE]

\* the settings ola_builder::build() goes on with: an unset timestep becomes
\* int(fs*0.005), an unset winlen int(fs*0.010) (ola.cpp:402-408)
builder_defaults(b) ==
    LET ts == IF b.m_timestep < 0 THEN IntDiv(b.fs * 5, 1000) ELSE b.m_timestep
        wl == IF b.m_winlen < 0 THEN IntDiv(b.fs * 10, 1000) ELSE b.m_winlen
    IN  [b EXCEPT !.m_timestep = ts, !.m_winlen = wl]

\* the assertions of audio_block_builder::build() and ola_builder::build()
builder_asserts(b) ==
    /\ b.fs > 0
    /\ builder_defaults(b).m_timestep > 0
    /\ builder_defaults(b).m_winlen > 0
    /\ builder_defaults(b).m_winlen > builder_defaults(b).m_timestep

\* ola_builder::build(): the engine, or no engine when an assertion stops it
ola_builder_build(b) ==
    IF ~builder_asserts(b) THEN NoEngine
    ELSE build([win |-> win_hamming(builder_defaults(b).m_winlen),
                timestep |-> builder_defaults(b).m_timestep,
                extra_samples_to_skip |-> b.m_extra_samples_to_skip,
                extra_samples_to_flush |-> 0,
                output_buffer_size_max |-> -1,
                target_output_length |-> -1])

InitBuild ==
    /\ ab = NoEngine
    /\ signal_in = <<>>
    /\ signal_out = CallerBuffer
    /\ chunk_size = 0
    /\ call = [op |-> "new", size |-> 0, ret |-> 0]

\* pbuilder->build() with the settings b
Build(b) ==
    /\ call.op = "new"
    /\ ab' = ola_builder_build(b)
    /\ call' = [op |-> "build", size |-> 0, ret |-> 0, builder |-> b]
    /\ UNCHANGED <<signal_in, signal_out, chunk_size>>

NextBuild == \E b \in BuilderSettings : Build(b)

SpecBuild == InitBuild /\ [][NextBuild]_vars

\* C14: build() with timestep <= 0, winlen <= timestep or fs <= 0 fails and
\* yields no engine.
C14_BuildRejectsInvalid ==
    (/\ call.op = "build"
     /\ \/ call.builder.m_timestep <= 0
        \/ call.builder.m_winlen <= call.builder.m_timestep
        \/ call.builder.fs <= 0)
        => ab = NoEngine

\* the number of proc_frame() calls of the step from a to b
frames_fired(a, b) == Len(b.proc_frame_calls) - Len(a.proc_frame_calls)

\* the number of times a batch of size samples brings a rolling buffer that
\* holds rolling samples to N samples, H of them leaving after each time
boundaries(N, H, rolling, size) ==
    IF rolling + size >= N THEN (rolling + size - N) \div H + 1 ELSE 0

\* the rolling buffer and the frames of one call: the buffer never holds more
\* than N samples and every frame given to proc_frame() holds exactly N; a
\* process() call fires one frame per boundary its batch crosses and keeps
\* the rest; a flush() call with something to flush fires a frame if and only
\* if its zeros bring the buffer to N, unless exempt
RollingAndFrames(a, b, c, exempt) ==
    LET N == winlen(a)
        H == a.m_timestep
        rolling == Len(a.m_frame_rolling)
        fired == frames_fired(a, b)
    IN  /\ Len(b.m_frame_rolling) <= N
        /\ \A k \in 1..Len(b.proc_frame_calls) : b.proc_frame_calls[k].in_size = N
        /\ (c.op \in {"process", "process_out"} /\ ~a.m_status.finished /\ ~b.abort) =>
              /\ fired = boundaries(N, H, rolling, c.size)
              /\ Len(b.m_frame_rolling) = rolling + c.size - fired * H
        /\ (/\ c.op \in {"flush", "flush_out"} /\ ~a.m_status.finished /\ ~b.abort
            /\ flush_available(a) > 0 /\ ~exempt) =>
              /\ (fired >= 1) <=> (c.size <= 0 \/ rolling + c.size >= N)
              /\ (fired = 0) => (b.m_status.finished
                                  \/ Len(b.m_frame_rolling) = rolling + c.size)

\* C15 (as stated): at every point the rolling buffer holds between 0 and N
\* samples, and proc_frame() is called exactly when it reaches N: one call per
\* frame boundary a batch crosses, none for a batch smaller than the space
\* left, and one whenever the zeros of flush() fill the buffer.
C15_FrameWhenRollingFull ==
    [][RollingAndFrames(ab, ab', call', FALSE)]_vars

\* the target output length is set and already reached
target_reached(a) ==
    a.m_target_output_length > 0 /\ a.m_output_length >= a.m_target_output_length

\* C15 (amended): as above, except that a flush() that finds the target
\* output length already reached fires no frame: when its zeros bring the
\* rolling buffer to N it finishes instead.
C15_FrameWhenRollingFullOrTarget ==
    [][/\ RollingAndFrames(ab, ab', call', target_reached(ab))
       /\ (/\ call'.op \in {"flush", "flush_out"} /\ ~ab.m_status.finished
           /\ ~ab'.abort /\ flush_available(ab) > 0 /\ target_reached(ab)) =>
             /\ frames_fired(ab, ab') = 0
             /\ (call'.size <= 0 \/ Len(ab.m_frame_rolling) + call'.size >= winlen(ab))
                    => ab'.m_status.finished]_vars

\* a process() call whose batch crossed two frame boundaries and left part of
\* a frame in the rolling buffer
C15_Witness ==
    /\ call.op = "process" /\ ~ab.abort
    /\ call.size >= 3
    /\ Len(ab.proc_frame_calls) = 2
    /\ Len(ab.m_frame_rolling) > 0 /\ Len(ab.m_frame_rolling) < winlen(ab)
    /\ ab.m_input_length = call.size

\* C16: both accumulators hold exactly N entries after build, after reset and
\* when proc_win() returns from any frame, the priming frames whose samples
\* are dropped and a last flush frame of fewer than H samples included.
C16_AccumulatorsHoldWinlen ==
    /\ Len(ab.m_out_sum) = winlen(ab)
    /\ Len(ab.m_out_sum_win) = winlen(ab)
    /\ \A k \in 1..Len(ab.proc_frame_calls) :
          /\ ab.proc_frame_calls[k].out_sum_size = winlen(ab)
          /\ ab.proc_frame_calls[k].out_sum_win_size = winlen(ab)

\* a flush(1) whose frame is the last one and emits fewer than H samples, in
\* a run whose first frame dropped a priming sample
C16_Witness ==
    /\ call.op = "flush" /\ call.size = 1 /\ ~ab.abort
    /\ call.ret > 0 /\ call.ret < ab.m_timestep
    /\ ab.m_status.finished
    /\ (winlen(ab) - 1) \div 2 > 0 /\ ab.m_first_frame_at_t0_samples_to_skip = 0
    /\ Len(ab.proc_frame_calls) >= 2
    /\ ab.proc_frame_calls[Len(ab.proc_frame_calls)].last_frame

\* ---------------------------------------------------------------------------
\* The streaming runs of the two harnesses, audio_block_ola_test (SpecStream)
\* and audio_block_ol_test: the frames each engine gives to proc_frame().

is_ol(a) == "m_win_center_idx" \in DOMAIN a

OlConfigs ==
    { [win |-> win_hamming(N), timestep |-> h, first_frame_at_t0 |-> t0,
       extra_samples_to_skip |-> 0, extra_samples_to_flush |-> xf] :
        N \in 2..MaxOlWinlen, h \in 1..(MaxOlWinlen - 1), t0 \in BOOLEAN,
        xf \in 0..MaxOlExtraFlush }

OlCall(op, size, nb_samples_total) ==
    [op |-> op, size |-> size, ret |-> 0, nb_samples_total |-> nb_samples_total]

\* audio_block_ol_test: the engine is built, the input signal generated
InitOl ==
    /\ chunk_size \in 1..MaxOlLen
    /\ \E cfg \in OlConfigs : ValidConfig(cfg) /\ ab = ol_build(cfg)
    /\ signal_in \in {Fill(1, n) : n \in 0..MaxOlLen}
    /\ signal_out = nullptr
    /\ call = OlCall("build", 0, 0)

\* pab->proc(chunk_in) with the next chunk of the signal (the whole signal
\* at once in the offline mode)
OlProc ==
    /\ is_ol(ab) /\ ~ab.abort
    /\ call.op # "flush"
    /\ call.nb_samples_total < Len(signal_in)
    /\ LET chunk_size_to_push == Min(chunk_size, Len(signal_in) - call.nb_samples_total)
           chunk_in == Slice(signal_in, call.nb_samples_total, chunk_size_to_push)
       IN  /\ ab' = ol_proc(ab, chunk_in)
           /\ call' = OlCall("proc", chunk_size_to_push,
                             call.nb_samples_total + chunk_size_to_push)
    /\ UNCHANGED <<signal_in, signal_out, chunk_size>>

\* pab->flush() once the signal is consumed
OlFlush ==
    /\ is_ol(ab) /\ ~ab.abort
    /\ call.op # "flush"
    /\ call.nb_samples_total = Len(signal_in)
    /\ ab' = ol_flush(ab)
    /\ call' = OlCall("flush", 0, call.nb_samples_total)
    /\ UNCHANGED <<signal_in, signal_out, chunk_size>>

\* pab->reset() at the end of the iteration; the next one starts
OlReset ==
    /\ is_ol(ab) /\ ~ab.abort
    /\ call.op = "flush"
    /\ ab' = ol_reset(ab)
    /\ call' = OlCall("reset", 0, 0)
    /\ UNCHANGED <<signal_in, signal_out, chunk_size>>

InitFrames == InitStream \/ InitOl

NextFrames ==
    \/ ~is_ol(ab) /\ StreamProcess
    \/ ~is_ol(ab) /\ StreamFlush
    \/ OlProc
    \/ OlFlush
    \/ OlReset

SpecFrames == InitFrames /\ [][NextFrames]_vars

\* C17: the centre index given to the k-th proc_frame() call of a run is
\* (k - 1) * H: 0 for the first frame, then H more for each frame, across all
\* process/proc and flush calls, in the OL and in the OLA engine.
C17_CentreAdvancesByTimestep ==
    \A k \in 1..Len(ab.proc_frame_calls) :
        ab.proc_frame_calls[k].input_win_center_idx = (k - 1) * ab.m_timestep

\* an OL run whose proc and flush calls gave four frames or more, the last
\* one with last_frame set
C17_Witness ==
    /\ is_ol(ab) /\ call.op = "flush" /\ call.nb_samples_total > winlen(ab)
    /\ Len(ab.proc_frame_calls) >= 4
    /\ ab.proc_frame_calls[Len(ab.proc_frame_calls)].last_frame
    /\ ab.proc_frame_calls[Len(ab.proc_frame_calls)].input_win_center_idx > 0

\* C18: every frame of an OLA run has its centre index within 0..L-1, L the
\* number of input samples of the run.
C18_OlaCentreWithinInput ==
    ~is_ol(ab) =>
        \A k \in 1..Len(ab.proc_frame_calls) :
            /\ ab.proc_frame_calls[k].input_win_center_idx >= 0
            /\ ab.proc_frame_calls[k].input_win_center_idx <= Len(signal_in) - 1

\* C19: in both engines a frame given with last_frame = true has its centre
\* index at or after L - 1 - H.
C19_LastFrameCentre ==
    \A k \in 1..Len(ab.proc_frame_calls) :
        ab.proc_frame_calls[k].last_frame =>
            ab.proc_frame_calls[k].input_win_center_idx
                >= Len(signal_in) - 1 - ab.m_timestep

\* C20 (as stated): every frame of an OL run has its centre index within
\* 0..L + N/2 + 1 (integer division).
C20_OlCentreBound ==
    is_ol(ab) =>
        \A k \in 1..Len(ab.proc_frame_calls) :
            /\ ab.proc_frame_calls[k].input_win_center_idx >= 0
            /\ ab.proc_frame_calls[k].input_win_center_idx
                   <= Len(signal_in) + winlen(ab) \div 2 + 1

\* C20 (amended): every frame of an OL run has its centre index within
\* 0..L + N/2 + 1 + extra_samples_to_flush; the bound of the statement is
\* that of an engine built without extra samples to flush.
C20_OlCentreBoundWithExtra ==
    is_ol(ab) =>
        \A k \in 1..Len(ab.proc_frame_calls) :
            /\ ab.proc_frame_calls[k].input_win_center_idx >= 0
            /\ ab.proc_frame_calls[k].input_win_center_idx
                   <= Len(signal_in) + winlen(ab) \div 2 + 1
                      + ab.m_extra_samples_to_flush

\* an OL run without extra samples whose flush gave a frame centred after
\* the last input sample
C20_Witness ==
    /\ is_ol(ab) /\ call.op = "flush" /\ Len(signal_in) > 0
    /\ ab.m_extra_samples_to_flush = 0
    /\ Len(ab.proc_frame_calls) > 0
    /\ ab.proc_frame_calls[Len(ab.proc_frame_calls)].input_win_center_idx
           > Len(signal_in) - 1

\* the run is over: the OLA engine is finished, the OL engine flushed
RunOver == IF is_ol(ab) THEN call.op = "flush" ELSE ab.m_status.finished

\* C21: when a run of process/proc calls followed by flush is over, exactly
\* one proc_frame() call was given last_frame = true, and it is the last call
\* of the run, in the OL and in the OLA engine.
C21_OneLastFrame ==
    (RunOver /\ ~ab.abort) =>
        /\ Len(ab.proc_frame_calls) > 0
        /\ \A k \in 1..Len(ab.proc_frame_calls) :
              ab.proc_frame_calls[k].last_frame <=> (k = Len(ab.proc_frame_calls))

\* C22: while m_first_frame_at_t0_samples_to_skip > 0 the samples a frame
\* emits are popped from the accumulators and not written to the output, and
\* after every call padding_start is true exactly when the counter is above
\* zero: once it has reached zero, padding_start is false.
C22_PaddingStartWhileSkipping ==
    [][~ab'.abort =>
         /\ ab'.m_status.padding_start <=> (ab'.m_first_frame_at_t0_samples_to_skip > 0)
         /\ (call'.op = "process_out" /\ ~ab.m_status.finished) =>
               LET skip == ab.m_first_frame_at_t0_samples_to_skip
                   emitted == frames_fired(ab, ab') * ab.m_timestep
                   dropped == skip - ab'.m_first_frame_at_t0_samples_to_skip
               IN  /\ dropped = Min(skip, emitted)
                   /\ Len(signal_out'.d) = emitted - dropped]_vars

\* the samples popped from the accumulators by the first k frames
RECURSIVE produced(_, _)
produced(calls, k) ==
    IF k = 0 THEN 0 ELSE produced(calls, k - 1) + calls[k].nb_samples_to_output

\* the counter of samples to skip that reset() sets
skip_at_reset(a) == (winlen(a) - 1) \div 2 + a.m_extra_samples_to_skip

\* C23 (as stated): between operations m_output_length plus the samples
\* still to skip equals the number of samples popped from the accumulators
\* so far, dropped or written.
C23_ProducedIsOutputPlusPending ==
    ab.m_output_length + ab.m_first_frame_at_t0_samples_to_skip
        = produced(ab.proc_frame_calls, Len(ab.proc_frame_calls))

\* C23 (amended): between operations m_output_length plus the samples
\* already skipped equals the number of samples popped from the accumulators
\* so far: the gap between produced and delivered samples is the priming
\* drops already made, and the pending ones are what is left of the counter
\* that reset() sets.
C23_ProducedIsOutputPlusDropped ==
    /\ ab.m_first_frame_at_t0_samples_to_skip >= 0
    /\ ab.m_output_length
         + (skip_at_reset(ab) - ab.m_first_frame_at_t0_samples_to_skip)
         = produced(ab.proc_frame_calls, Len(ab.proc_frame_calls))

\* a run that dropped its priming sample and then wrote output
C23_Witness ==
    /\ ~ab.abort /\ skip_at_reset(ab) > 0
    /\ ab.m_first_frame_at_t0_samples_to_skip = 0
    /\ ab.m_output_length >= 2
    /\ Len(ab.proc_frame_calls) >= 2

\* sample p (from 0) of the input stream the frames are cut from: the
\* priming zeros, the input, the zeros of flush()
stream_sample(in, skip, p) ==
    IF p >= skip /\ p - skip < Len(in) THEN in[p - skip + 1] ELSE 0

\* the window weights that the frames 0..k-1, H samples apart, put on
\* position p of the stream
RECURSIVE accum_win(_, _, _, _)
accum_win(win, H, p, k) ==
    IF k = 0 THEN 0
    ELSE accum_win(win, H, p, k - 1)
         + (IF p >= (k - 1) * H /\ p < (k - 1) * H + Len(win)
            THEN win[p - (k - 1) * H + 1] ELSE 0)

C25_TargetOutputLength ==
    (ab.m_status.finished /\ ~ab.abort /\ ab.m_target_output_length > 0) =>
        ab.m_output_length = ab.m_target_output_length


\* ---------------------------- fixed-chunk real-time run (ola.cpp:562-579)
\* audio_block_ola_test, mode_realtime: one chunk size for the whole run, the
\* engine built with an output buffer that is either the default or chunk_size.
InitRealtimeRun ==
    /\ chunk_size \in 1..MaxChunk
    /\ \E cfg \in Configs(HammingWindows, {0, MaxExtra}, {0}, {-1, chunk_size}, {-1}) :
          ValidConfig(cfg) /\ ab = build(cfg)
    /\ signal_in \in Signals
    /\ signal_out = Ring(<<>>, 2 * (MaxLen + MaxWinlen))
    /\ call = Call("build", 0, 0)

\* one turn of the callback loop: the next min(chunk_size, remaining) samples
\* go through process_realtime; the loop is left when the output has the size
\* of the input, or by the test_require on the sizes of the call before
RealtimeChunk ==
    /\ ~ab.abort
    /\ Len(signal_out.d) < Len(signal_in)
    /\ call.op = "process_realtime" => call.ret = call.size
    /\ LET chunk_size_req == Min(chunk_size, Len(signal_in) - ab.m_input_length)
           chunk_in == Slice(signal_in, ab.m_input_length, chunk_size_req)
           r == process_realtime(ab, chunk_in, signal_out)
       IN  /\ ab' = r.ab
           /\ signal_out' = r.pout
           /\ call' = Call("process_realtime", chunk_size_req,
                           Len(r.pout.d) - Len(signal_out.d))
    /\ UNCHANGED <<signal_in, chunk_size>>

SpecRealtimeRun == InitRealtimeRun /\ [][RealtimeChunk]_vars

\* C26: once a real-time run with one chunk size has delivered its whole input
\* (in at least one call), the smallest size the internal output ring had at
\* the end of a call is below the chunk size.
C26_OutSizeMinBelowChunk ==
    (call.op = "process_realtime" /\ ~ab.abort
        /\ ab.m_input_length = Len(signal_in)) =>
        ab.m_stat_realtime_out_size_min < chunk_size

\* a run of several chunks whose ring was never empty at the end of a call
C26_Witness ==
    /\ call.op = "process_realtime" /\ ~ab.abort
    /\ ab.m_input_length = Len(signal_in)
    /\ Len(signal_in) > chunk_size
    /\ ab.m_stat_realtime_out_size_min > 0
    /\ ab.m_stat_realtime_out_size_min < chunk_size


\* ------------------------ offline run in chunks (ola.h:183-185; ola.cpp:281)
\* The set-up of the offline run; the single call is either
\* process_offline(in, out) or process_offline(in, out, chunk_size).
OfflineChunkRun(c) ==
    /\ call.op = "build"
    /\ LET r == process_offline_chunk_size(ab, signal_in, signal_out, c)
       IN  /\ ab' = r.ab
           /\ signal_out' = r.pout
    /\ call' = Call("process_offline_chunk_size", c,
                    Len(signal_out'.d) - Len(signal_out.d))
    /\ chunk_size' = c
    /\ UNCHANGED signal_in

NextOfflineChunk ==
    \/ OfflineRun
    \/ \E c \in 1..MaxChunk : OfflineChunkRun(c)

SpecOfflineChunk == InitOffline /\ [][NextOfflineChunk]_vars

\* C27: process_offline(in, out, chunk_size) appends the samples that
\* process_offline(in, out) appends from the same engine state, as many as the
\* input has, and leaves the engine finished, for every chunk_size >= 1, in
\* the runs where no ring overflows.
C27_ChunkedOfflineEqualsOffline ==
    [][(call'.op = "process_offline_chunk_size" /\ ~ab'.abort) =>
          /\ signal_out' = process_offline(ab, signal_in, signal_out).pout
          /\ Len(signal_out'.d) = Len(signal_in)
          /\ ab'.m_status.finished]_vars


\* C28: the value process(in, pout) or flush(chunk_size_max, pout) returns is
\* the number of samples the call appended to the output, the caller's buffer
\* or the internal ring.
C28_ReturnsSamplesAppended ==
    [][~ab'.abort =>
          /\ call'.op \in {"process_out", "flush_out"} =>
                call'.ret = Len(signal_out'.d) - Len(CallerBuffer.d)
          /\ call'.op \in {"process", "flush"} =>
                call'.ret = Len(ab'.m_out.d) - Len(ab.m_out.d)]_vars


\* ---------------------------------------------------------------------------
\* phaseshift::ringbuffer (ringbuffer.h): the storage cells m_data[0..
\* m_size_max-1], the front offset, the size and the end offset of the base
\* class; overrun is set by an access outside the storage or outside v.

MaxCapacity == 4

\* the end offset the base class keeps: the cell the next push_back writes,
\* after the last element
end_offset(m_front, m_size, m_size_max) == (m_front + m_size) % m_size_max

\* create_wrapped_ringbuffer(rb, capacity, size, wrap_offset, start_value):
\* wrap_offset zeros pushed and popped, then start_value + i pushed
create_wrapped_ringbuffer(capacity, size, wrap_offset, start_value) ==
    [m_data |-> [c \in 1..capacity |->
                    LET n == (c - 1 - wrap_offset) % capacity
                    IN  IF n < size THEN start_value + n ELSE 0],
     m_front |-> wrap_offset, m_size |-> size, m_size_max |-> capacity,
     m_end |-> end_offset(wrap_offset, size, capacity), overrun |-> FALSE]

\* create_vector(v, size, start_value)
create_vector(size, start_value) == [n \in 1..size |-> start_value + n - 1]

\* rb[n]
At(rb, n) == rb.m_data[((rb.m_front + n) % rb.m_size_max) + 1]

\* for (n = 0; n < count; ++n) *pdata++ += *pvdata++;
RECURSIVE add_segment(_, _, _, _, _, _)
add_segment(rb, pdata, v, pvdata, count, n) ==
    IF n >= count THEN rb
    ELSE IF pdata + n >= rb.m_size_max \/ pvdata + n >= Len(v)
    THEN add_segment([rb EXCEPT !.overrun = TRUE], pdata, v, pvdata, count, n + 1)
    ELSE add_segment([rb EXCEPT !.m_data[pdata + n + 1] = @ + v[pvdata + n + 1]],
                     pdata, v, pvdata, count, n + 1)

\* ringbuffer::operator+=(const vector& v)
operator_add_assign(rb, v) ==
    IF rb.m_size # Len(v) THEN [rb EXCEPT !.overrun = TRUE]
    ELSE IF Len(v) = 0 THEN rb
    ELSE IF rb.m_front + Len(v) <= rb.m_size_max
    THEN add_segment(rb, rb.m_front, v, 0, Len(v), 0)
    ELSE LET seg1size == rb.m_size_max - rb.m_end
             seg2size == Len(v) - seg1size
         IN  add_segment(add_segment(rb, rb.m_front, v, 0, seg1size, 0),
                         0, v, seg1size, seg2size, 0)

\* ringbuffer_vector_operators_wrapped: a ring of some capacity, front offset
\* and size, and a vector of the ring's size
InitRing ==
    /\ \E capacity \in 1..MaxCapacity, size \in 0..MaxCapacity,
          wrap_offset \in 0..(MaxCapacity - 1), start_value \in {0, 20} :
          /\ size <= capacity /\ wrap_offset < capacity
          /\ ab = create_wrapped_ringbuffer(capacity, size, wrap_offset, start_value)
          /\ \E v_start \in {1, 10} : signal_in = create_vector(size, v_start)
    /\ signal_out = nullptr
    /\ chunk_size = 0
    /\ call = Call("create_wrapped_ringbuffer", 0, 0)

\* rb += v
RingAddAssign ==
    /\ call.op = "create_wrapped_ringbuffer"
    /\ ab' = operator_add_assign(ab, signal_in)
    /\ call' = Call("operator+=", Len(signal_in), 0)
    /\ UNCHANGED <<signal_in, signal_out, chunk_size>>

SpecRing == InitRing /\ [][RingAddAssign]_vars

\* C30: rb += v with a vector of the ring's size adds v[i] to the logical
\* element i, for every i below the size, and touches no other cell, inside
\* the storage or outside, whatever the capacity, the front offset and the
\* size.
C30_AddAssignElementwise ==
    [][call'.op = "operator+=" =>
          /\ ~ab'.overrun
          /\ \A n \in 0..(ab.m_size - 1) : At(ab', n) = At(ab, n) + signal_in[n + 1]
          /\ \A c \in 1..ab.m_size_max :
                ((c - 1 - ab.m_front) % ab.m_size_max >= ab.m_size) =>
                    ab'.m_data[c] = ab.m_data[c]
          /\ ab'.m_front = ab.m_front /\ ab'.m_size = ab.m_size]_vars


\* ---------------------------------------------------------------------------
\* ringbuffer::divide_equal_range on the storage cells (ringbuffer.h:410-519).
\* The cells of the destination hold fractions <<numerator, denominator>>.

\* x /= y for a cell x and a float y; a zero divisor gives denominator 0
cell_divide(x, y) == IF y = 0 THEN <<x[1], 0>> ELSE Divide(x[1], x[2] * y)

\* for (n = 0; n < count; ++n) *pdst++ /= *psrc++;
RECURSIVE divide_segment(_, _, _, _, _, _)
divide_segment(a, pdst, rb, psrc, count, n) ==
    IF n >= count THEN a
    ELSE IF pdst + n >= a.m_size_max \/ psrc + n >= rb.m_size_max
    THEN divide_segment([a EXCEPT !.overrun = TRUE], pdst, rb, psrc, count, n + 1)
    ELSE divide_segment(
             [a EXCEPT !.m_data[pdst + n + 1] = cell_divide(@, rb.m_data[psrc + n + 1])],
             pdst, rb, psrc, count, n + 1)

\* both segments wrap, handled as if the wrap points were always aligned
divide_both_wrap_mut(a, rb, size) ==
    LET dst_seg1 == a.m_size_max - a.m_front
    IN  divide_segment(divide_segment(a, a.m_front, rb, rb.m_front, dst_seg1, 0),
                       0, rb, 0, size - dst_seg1, 0)

\* the branch "Both wrap around" (ringbuffer.h:456-517)
divide_both_wrap(a, rb, size) ==
    LET dst_seg1 == a.m_size_max - a.m_front
        src_seg1 == rb.m_size_max - rb.m_front
    IN  IF dst_seg1 = src_seg1
        THEN divide_segment(divide_segment(a, a.m_front, rb, rb.m_front, dst_seg1, 0),
                            0, rb, 0, size - dst_seg1, 0)
        ELSE IF src_seg1 < dst_seg1
        THEN divide_segment(
                 divide_segment(
                     divide_segment(a, a.m_front, rb, rb.m_front, src_seg1, 0),
                     a.m_front + src_seg1, rb, 0, dst_seg1 - src_seg1, 0),
                 0, rb, dst_seg1 - src_seg1, size - dst_seg1, 0)
        ELSE divide_segment(
                 divide_segment(
                     divide_segment(a, a.m_front, rb, rb.m_front, dst_seg1, 0),
                     0, rb, rb.m_front + dst_seg1, src_seg1 - dst_seg1, 0),
                 src_seg1 - dst_seg1, rb, 0, size - src_seg1, 0)

\* ringbuffer::divide_equal_range(rb, size) on the cells of *this = a
divide_equal_range_cells(a, rb, size) ==
    IF size > a.m_size \/ size > rb.m_size THEN [a EXCEPT !.overrun = TRUE]
    ELSE IF size = 0 THEN a
    ELSE IF a.m_front + size <= a.m_size_max
    THEN IF rb.m_front + size <= rb.m_size_max
         THEN divide_segment(a, a.m_front, rb, rb.m_front, size, 0)
         ELSE LET src_seg1 == rb.m_size_max - rb.m_front
              IN  divide_segment(
                      divide_segment(a, a.m_front, rb, rb.m_front, src_seg1, 0),
                      a.m_front + src_seg1, rb, 0, size - src_seg1, 0)
    ELSE IF rb.m_front + size <= rb.m_size_max
         THEN LET dst_seg1 == a.m_size_max - a.m_front
              IN  divide_segment(
                      divide_segment(a, a.m_front, rb, rb.m_front, dst_seg1, 0),
                      0, rb, rb.m_front + dst_seg1, size - dst_seg1, 0)
         ELSE divide_both_wrap(a, rb, size)

\* the ring as the tests fill it, its cells as fractions
float_cells(rb) == [rb EXCEPT !.m_data = [c \in 1..rb.m_size_max |-> Float(rb.m_data[c])]]

\* the rings of ringbuffer_divide_equal_range: every capacity, front offset
\* and size of the destination (ab) and of the source (signal_in); chunk_size
\* is the number of elements to divide
InitRingDivide ==
    /\ \E capacity \in 1..MaxCapacity, size \in 0..MaxCapacity,
          wrap_offset \in 0..(MaxCapacity - 1) :
          /\ size <= capacity /\ wrap_offset < capacity
          /\ ab = float_cells(create_wrapped_ringbuffer(capacity, size, wrap_offset, 12))
    /\ \E capacity \in 1..MaxCapacity, size \in 0..MaxCapacity,
          wrap_offset \in 0..(MaxCapacity - 1) :
          /\ size <= capacity /\ wrap_offset < capacity
          /\ signal_in = create_wrapped_ringbuffer(capacity, size, wrap_offset, 1)
    /\ chunk_size \in 0..Min(ab.m_size, signal_in.m_size)
    /\ signal_out = nullptr
    /\ call = Call("create_wrapped_ringbuffer", 0, 0)

\* rb1.divide_equal_range(rb2, size)
RingDivideEqualRange ==
    /\ call.op = "create_wrapped_ringbuffer"
    /\ ab' = divide_equal_range_cells(ab, signal_in, chunk_size)
    /\ call' = Call("divide_equal_range", chunk_size, 0)
    /\ UNCHANGED <<signal_in, signal_out, chunk_size>>

SpecRingDivide == InitRingDivide /\ [][RingDivideEqualRange]_vars

\* C31: a.divide_equal_range(b, n) divides the logical elements 0..n-1 of a by
\* the elements of b of the same index, leaves every other cell of a and all
\* of b as they were and reaches outside no storage, whatever the capacities
\* and front offsets of a and b; n = 0 changes nothing.
C31_DivideEqualRange ==
    [][call'.op = "divide_equal_range" =>
          /\ ~ab'.overrun
          /\ \A n \in 0..(chunk_size - 1) :
                At(ab', n) = cell_divide(At(ab, n), At(signal_in, n))
          /\ \A c \in 1..ab.m_size_max :
                ((c - 1 - ab.m_front) % ab.m_size_max >= chunk_size) =>
                    ab'.m_data[c] = ab.m_data[c]
          /\ ab'.m_front = ab.m_front /\ ab'.m_size = ab.m_size
          /\ signal_in' = signal_in
          /\ (chunk_size = 0 => ab' = ab)]_vars

\* both rings wrapped inside the divided range, at different cells, with an
\* element of a beyond the range
C31_Witness ==
    /\ call.op = "divide_equal_range" /\ ~ab.overrun
    /\ ab.m_front + chunk_size > ab.m_size_max
    /\ signal_in.m_front + chunk_size > signal_in.m_size_max
    /\ ab.m_size_max - ab.m_front # signal_in.m_size_max - signal_in.m_front
    /\ chunk_size < ab.m_size
    /\ At(ab, 0) = Float(12) /\ At(ab, 1) = Divide(13, 2)
    /\ At(ab, chunk_size) = Float(12 + chunk_size)


\* ---------------------------------------------------------------------------
\* phaseshift::sum and phaseshift::prod (sigproc.h:95-117) on arrays of small
\* integers.

MaxArray == 4

\* val += array[n] for n = from .. size-1
RECURSIVE sum_loop(_, _, _)
sum_loop(array, n, val) ==
    IF n >= Len(array) THEN val ELSE sum_loop(array, n + 1, val + array[n + 1])

\* phaseshift::sum(array)
sum(array) ==
    IF Len(array) = 0 THEN 0
    ELSE IF Len(array) = 1 THEN array[1]
    ELSE sum_loop(array, 1, 0)

\* val *= array[n] for n = from .. size-1
RECURSIVE prod_loop(_, _, _)
prod_loop(array, n, val) ==
    IF n >= Len(array) THEN val ELSE prod_loop(array, n + 1, val * array[n + 1])

\* phaseshift::prod(array)
prod(array) ==
    IF Len(array) = 0 THEN 1
    ELSE IF Len(array) = 1 THEN array[1]
    ELSE prod_loop(array, 1, 1)

\* sigproc_basic_stats: an array of values
InitStats ==
    /\ signal_in \in UNION {[1..n -> 0..3] : n \in 0..MaxArray}
    /\ ab = nullptr
    /\ signal_out = nullptr
    /\ chunk_size = 0
    /\ call = Call("values", Len(signal_in), 0)

\* phaseshift::sum<float>(values)
StatsSum ==
    /\ call.op = "values"
    /\ call' = Call("sum", Len(signal_in), sum(signal_in))
    /\ UNCHANGED <<ab, signal_in, signal_out, chunk_size>>

\* phaseshift::prod<float>(values)
StatsProd ==
    /\ call.op = "values"
    /\ call' = Call("prod", Len(signal_in), prod(signal_in))
    /\ UNCHANGED <<ab, signal_in, signal_out, chunk_size>>

NextStats == StatsSum \/ StatsProd

SpecStats == InitStats /\ [][NextStats]_vars

\* the sum and the product of all the elements, by their definition
RECURSIVE sum_of_all(_)
sum_of_all(array) ==
    IF array = <<>> THEN 0 ELSE array[1] + sum_of_all(Tail(array))

RECURSIVE prod_of_all(_)
prod_of_all(array) ==
    IF array = <<>> THEN 1 ELSE array[1] * prod_of_all(Tail(array))

\* C32: sum(array) is the sum of all the elements of the array and
\* prod(array) their product, for every length; 0 and 1 on the empty array.
C32_SumAndProdOfAll ==
    /\ call.op = "sum" => call.ret = sum_of_all(signal_in)
    /\ call.op = "prod" => call.ret = prod_of_all(signal_in)


\* ------------------------------------- the frames of a run (ola.cpp:34-56)
\* A run on a whole input: process() on the next samples of signal_in in
\* chunks of any size, then flush(); the engine records the frames it hands to
\* proc_frame(), and signal_out receives the whole output.
InitFifo ==
    /\ \E cfg \in Configs(HammingWindows, {0, MaxExtra}, {0, MaxExtra}, {-1}, {-1}) :
          ValidConfig(cfg) /\ ab = [build(cfg) EXCEPT !.frame_log = TRUE]
    /\ signal_in \in Signals
    /\ signal_out = CallerBuffer
    /\ chunk_size = 0
    /\ call = Call("build", 0, 0)

\* process(chunk_in, &signal_out) on the next c samples
FifoProcess(c) ==
    /\ ~ab.abort /\ ~ab.m_status.flushing
    /\ c <= Len(signal_in) - ab.m_input_length
    /\ LET r == process(ab, Slice(signal_in, ab.m_input_length, c), signal_out)
       IN  /\ ab' = r.ab
           /\ signal_out' = r.pout
           /\ call' = Call("process_out", c, r.ret)
    /\ UNCHANGED <<signal_in, chunk_size>>

\* flush(chunk_size_max, &signal_out) once the whole input is in
FifoFlush(chunk_size_max) ==
    /\ ~ab.abort /\ ~ab.m_status.finished
    /\ ab.m_input_length = Len(signal_in)
    /\ LET r == flush(ab, chunk_size_max, signal_out)
       IN  /\ ab' = r.ab
           /\ signal_out' = r.pout
           /\ call' = Call("flush_out", chunk_size_max, r.ret)
    /\ UNCHANGED <<signal_in, chunk_size>>

NextFifo ==
    \/ \E c \in 1..MaxChunk : FifoProcess(c)
    \/ \E c \in ChunkLimits : FifoFlush(c)

SpecFifo == InitFifo /\ [][NextFifo]_vars

\* the frame of winlen samples that starts at position p of the stream
stream_frame(a, in, p) ==
    [i \in 1..winlen(a) |-> stream_sample(in, (winlen(a) - 1) \div 2, p + i - 1)]

\* C33: the k-th frame handed to proc_frame() (k from 0) holds the positions
\* k*H .. k*H+N-1 of the stream of (N-1)/2 zeros, the input in arrival order
\* and the zeros of flush(), however the input was cut into process() calls.
\* Once the run is finished the frames reach the last input sample.
C33_FramesAreStreamWindows ==
    ~ab.abort =>
        /\ \A k \in 1..Len(ab.proc_frame_calls) :
              ab.proc_frame_calls[k].frame_input
                  = stream_frame(ab, signal_in, (k - 1) * ab.m_timestep)
        /\ (ab.m_status.finished /\ Len(signal_in) > 0) =>
              (Len(ab.proc_frame_calls) - 1) * ab.m_timestep + winlen(ab)
                  >= (winlen(ab) - 1) \div 2 + Len(signal_in)

\* a finished run of several frames on a signal that is
\* not constant
C33_Witness ==
    /\ ~ab.abort /\ ab.m_status.finished
    /\ call.op = "flush_out"
    /\ Len(ab.proc_frame_calls) >= 3
    /\ \E i, j \in 1..Len(signal_in) : signal_in[i] # signal_in[j]
    /\ \E k \in 1..Len(ab.proc_frame_calls) :
          \E i \in 1..winlen(ab) : ab.proc_frame_calls[k].frame_input[i] = 1


\* ------------------------------------------- runs with resets and re-flush
\* The runs of SpecFrames, with reset() of either engine at any point and a
\* second flush() of the OL engine.

\* pab->reset() of the OLA engine (ola.cpp:629); the next run starts on an
\* empty output
StreamReset ==
    /\ ~is_ol(ab) /\ ~ab.abort
    /\ call.op # "build" /\ call.op # "reset"
    /\ ab' = reset(ab)
    /\ signal_out' = [signal_out EXCEPT !.d = <<>>]
    /\ call' = Call("reset", 0, 0)
    /\ UNCHANGED <<signal_in, chunk_size>>

\* ol::reset() before the run has reached its flush(): right after build(),
\* after another reset(), between proc() calls
OlResetEarly ==
    /\ is_ol(ab) /\ ~ab.abort
    /\ call.op # "flush"
    /\ ab' = ol_reset(ab)
    /\ call' = OlCall("reset", 0, 0)
    /\ UNCHANGED <<signal_in, signal_out, chunk_size>>

\* ol::flush() called again after flush(); call.size counts the further
\* flush() calls
OlFlushAgain ==
    /\ is_ol(ab) /\ ~ab.abort
    /\ call.op = "flush" /\ call.size = 0
    /\ ab' = ol_flush(ab)
    /\ call' = OlCall("flush", 1, call.nb_samples_total)
    /\ UNCHANGED <<signal_in, signal_out, chunk_size>>

NextResets ==
    \/ NextFrames
    \/ StreamReset
    \/ OlResetEarly
    \/ OlFlushAgain

SpecResets == InitFrames /\ [][NextResets]_vars

\* the flag of the first frame that the k-th recorded proc_frame() received
first_frame_seen(calls, k) ==
    IF "first_frame" \in DOMAIN calls[k]
    THEN calls[k].first_frame ELSE calls[k].first_input_frame

\* C34: first_input_frame (OLA) or first_frame (OL) is true in the first
\* proc_frame() call after build() or reset() and false in every later one.
C34_FirstFrameOnlyFirst ==
    ~ab.abort =>
        \A k \in 1..Len(ab.proc_frame_calls) :
            first_frame_seen(ab.proc_frame_calls, k) <=> (k = 1)

\* three frames of a run of the OLA engine that has reached its flush()
C34_Witness ==
    /\ ~ab.abort /\ ~is_ol(ab)
    /\ Len(ab.proc_frame_calls) >= 3
    /\ ab.proc_frame_calls[1].first_input_frame
    /\ ~ab.proc_frame_calls[3].first_input_frame
    /\ ab.m_status.flushing


\* C35: once flush() of the OL engine has returned the engine is finished:
\* its rolling buffer is empty and a further flush() calls proc_frame() no
\* more, until reset().
C35_OlFinishedAfterFlush ==
    [][(is_ol(ab') /\ call'.op = "flush" /\ ~ab'.abort) =>
          /\ Len(ab'.m_frame_rolling) = 0
          /\ call.op = "flush" =>
                Len(ab'.proc_frame_calls) = Len(ab.proc_frame_calls)]_vars


\* C36: ol::reset() fails no assertion in any reachable state, and leaves the
\* OL engine in the state build() left it in.
C36_OlResetAnywhere ==
    [][(is_ol(ab) /\ call'.op = "reset") =>
          /\ ~ab'.abort
          /\ ab' = ol_build([win |-> ab.m_win, timestep |-> ab.m_timestep,
                             first_frame_at_t0 |-> ab.m_first_frame_at_t0,
                             extra_samples_to_skip |-> ab.m_extra_samples_to_skip,
                             extra_samples_to_flush |-> ab.m_extra_samples_to_flush])]_vars


\* ---------------------------------------------------------------------------
\* audio_block_builder_test (audio_block.cpp:14-55): the main thread and
\* nb_threads workers around the atomics go and nb_ready.  ab holds the
\* shared data, the program counter of the main thread (main, with nt the
\* index of its loops) and those of the started workers (threads).

MaxThreads == 3

\* a main thread that waits for one ready worker only
all_ready_mut(sync_data, nb_threads) == sync_data.nb_ready >= Min(1, nb_threads)

\* !(sync_data.nb_ready < int(threads.size()))
all_ready(sync_data, nb_threads) == sync_data.nb_ready >= nb_threads

InitBarrier ==
    /\ chunk_size \in 1..MaxThreads
    /\ ab = [go |-> FALSE, nb_ready |-> 0, main |-> "spawn", nt |-> 0,
             threads |-> <<>>]
    /\ signal_in = <<>>
    /\ signal_out = nullptr
    /\ call = Call("audio_block_builder_test", chunk_size, 0)

\* threads.push_back(std::thread(...)): the worker nt exists from here on
MainSpawn ==
    /\ ab.main = "spawn" /\ ab.nt < chunk_size
    /\ ab' = [ab EXCEPT !.threads = Append(@, "start"), !.main = "joinable"]
    /\ UNCHANGED <<signal_in, signal_out, chunk_size, call>>

\* while (!threads[nt].joinable()) sleep; a started thread is joinable
MainJoinable ==
    /\ ab.main = "joinable"
    /\ ab' = [ab EXCEPT !.nt = @ + 1,
                        !.main = IF ab.nt + 1 < chunk_size THEN "spawn" ELSE "wait_ready"]
    /\ UNCHANGED <<signal_in, signal_out, chunk_size, call>>

\* while (sync_data.nb_ready < threads.size()) sleep; the loop is left
MainAllReady ==
    /\ ab.main = "wait_ready"
    /\ all_ready(ab, Len(ab.threads))
    /\ ab' = [ab EXCEPT !.main = "set_go"]
    /\ UNCHANGED <<signal_in, signal_out, chunk_size, call>>

\* sync_data.go = true
MainGo ==
    /\ ab.main = "set_go"
    /\ ab' = [ab EXCEPT !.go = TRUE, !.main = "join", !.nt = 0]
    /\ UNCHANGED <<signal_in, signal_out, chunk_size, call>>

\* thread.join() for the next thread, which returns once the worker is done
MainJoin ==
    /\ ab.main = "join" /\ ab.nt < Len(ab.threads)
    /\ ab.threads[ab.nt + 1] = "done"
    /\ ab' = [ab EXCEPT !.nt = @ + 1,
                        !.main = IF ab.nt + 1 < Len(ab.threads) THEN "join" ELSE "end"]
    /\ UNCHANGED <<signal_in, signal_out, chunk_size, call>>

\* psync_data->nb_ready++
WorkerReady(w) ==
    /\ w <= Len(ab.threads) /\ ab.threads[w] = "start"
    /\ ab' = [ab EXCEPT !.nb_ready = @ + 1, !.threads[w] = "wait"]
    /\ UNCHANGED <<signal_in, signal_out, chunk_size, call>>

\* while (!psync_data->go) sleep; the loop is left when go is read true
WorkerGo(w) ==
    /\ w <= Len(ab.threads) /\ ab.threads[w] = "wait"
    /\ ab.go
    /\ ab' = [ab EXCEPT !.threads[w] = "fn"]
    /\ UNCHANGED <<signal_in, signal_out, chunk_size, call>>

\* fn(); the thread function returns
WorkerFn(w) ==
    /\ w <= Len(ab.threads) /\ ab.threads[w] = "fn"
    /\ ab' = [ab EXCEPT !.threads[w] = "done"]
    /\ UNCHANGED <<signal_in, signal_out, chunk_size, call>>

MainStep == MainSpawn \/ MainJoinable \/ MainAllReady \/ MainGo \/ MainJoin

WorkerStep(w) == WorkerReady(w) \/ WorkerGo(w) \/ WorkerFn(w)

NextBarrier ==
    \/ MainSpawn
    \/ MainJoinable
    \/ MainAllReady
    \/ MainGo
    \/ MainJoin
    \/ \E w \in 1..MaxThreads : WorkerReady(w)
    \/ \E w \in 1..MaxThreads : WorkerGo(w)
    \/ \E w \in 1..MaxThreads : WorkerFn(w)

\* every thread that can take a step is scheduled at some point
SpecBarrier ==
    /\ InitBarrier /\ [][NextBarrier]_vars
    /\ WF_vars(MainStep)
    /\ \A w \in 1..MaxThreads : WF_vars(WorkerStep(w))

\* no worker is in fn() or past it unless all the workers are ready and go is
\* set
BarrierHolds ==
    \A w \in 1..Len(ab.threads) :
        ab.threads[w] \in {"fn", "done"} =>
            ab.go /\ ab.nb_ready = chunk_size /\ Len(ab.threads) = chunk_size

\* every worker has run fn() and is joined
AllJoined ==
    /\ ab.main = "end"
    /\ Len(ab.threads) = chunk_size
    /\ \A w \in 1..chunk_size : ab.threads[w] = "done"

\* C37: with n worker threads no worker starts fn() before all n workers have
\* registered as ready and the main thread has set go, and every worker
\* eventually runs fn() and is joined.
C37_BarrierReleasesAllOnce == []BarrierHolds /\ <>AllJoined

\* three workers have run fn() and are joined
C37_Witness == AllJoined /\ chunk_size >= 3 /\ ab.nb_ready = 3 /\ ab.go


\* C38: at every proc_frame() call of the OLA engine, in process() and in
\* flush(), status.output_win_center_idx is status.input_win_center_idx less
\* the extra samples to skip.
C38_OutputCentreFollowsInput ==
    ~ab.abort =>
        \A k \in 1..Len(ab.proc_frame_calls) :
            ab.proc_frame_calls[k].output_win_center_idx
                = ab.proc_frame_calls[k].input_win_center_idx
                  - ab.m_extra_samples_to_skip

\* a finished run with extra samples to skip whose frames went through the
\* priming phase and past it
C38_Witness ==
    /\ ~ab.abort /\ ab.m_status.finished
    /\ ab.m_extra_samples_to_skip > 0
    /\ Len(ab.proc_frame_calls) >= 4
    /\ ab.proc_frame_calls[1].output_win_center_idx < 0
    /\ ab.proc_frame_calls[Len(ab.proc_frame_calls)].output_win_center_idx > 0
    /\ ab.m_output_length > 0


\* the counters of an engine are within 0 <= output_length <= input_length
lengths_in_order(a) ==
    /\ 0 <= a.m_output_length
    /\ a.m_output_length <= a.m_input_length

\* C39: with no extra samples to skip or to flush and no target output
\* length, 0 <= output_length <= input_length before and after every call of
\* a run (process and flush in any chunking, fetch, reset), and no call
\* other than reset() decreases input_length or output_length.
C39_LengthsOrderedAndMonotone ==
    [][(/\ ab.m_extra_samples_to_skip = 0
        /\ ab.m_extra_samples_to_flush = 0
        /\ ab.m_target_output_length < 0
        /\ ~ab.abort /\ ~ab'.abort)
       => /\ lengths_in_order(ab) /\ lengths_in_order(ab')
          /\ call'.op # "reset"
                => /\ ab'.m_input_length >= ab.m_input_length
                   /\ ab'.m_output_length >= ab.m_output_length]_vars

\* a finished run without extras or target that has delivered its whole input
C39_Witness ==
    /\ ~ab.abort /\ ab.m_status.finished
    /\ ab.m_extra_samples_to_skip = 0
    /\ ab.m_extra_samples_to_flush = 0
    /\ ab.m_target_output_length < 0
    /\ ab.m_input_length = MaxLen
    /\ ab.m_output_length = MaxLen
    /\ Len(ab.proc_frame_calls) >= 3


\* the samples process_realtime finds in the internal ring after its call of
\* process(in), for the call of chunk_size_req samples made in the state
\* whose engine is a (ola.cpp:310-312)
realtime_available(a, in, chunk_size_req) ==
    fetch_available(process(a, Slice(in, a.m_input_length, chunk_size_req), nullptr).ab)

\* out is winlen zeros followed by the first samples of in, nothing between
zeros_then_input(a, in, out) ==
    \A n \in 1..Len(out) :
        IF n <= winlen(a)
        THEN out[n] = Float(0)
        ELSE n - winlen(a) <= Len(in) /\ out[n] = Float(in[n - winlen(a)])

\* C40: in real-time mode with extra_samples_to_skip = 0 and before any
\* flush(), every process_realtime call finds in the internal ring the
\* samples it owes beyond the pre-pad zeros (size(in) of them once the winlen
\* zeros are out), so that no zero is appended after a fetch, and the
\* delivered stream is winlen zeros followed by the reconstructed samples in
\* order.
C40_RealtimeNeverUnderruns ==
    [][(/\ call'.op = "process_realtime"
        /\ ~ab.abort /\ ~ab'.abort
        /\ ab.m_extra_samples_to_skip = 0
        /\ ~ab.m_status.flushing)
       => /\ realtime_available(ab, signal_in, call'.size)
                >= call'.size - Min(ab.m_realttime_prepad_latency_remaining, call'.size)
          /\ zeros_then_input(ab, signal_in, signal_out'.d)]_vars

====
